---- MODULE Spec2Model ----
(***************************************************************************)
(* Model of the LED program engine of emfao-light_control:                 *)
(* ProgramManager (program.cpp), LED (led.cpp), the parts of               *)
(* ModuleManager / PCA9685Module (pca9685.cpp), StorageManager             *)
(* (storage.cpp), WebServer::handleUpdateLed (web_server.cpp) and loop()   *)
(* (main.cpp) that read or write a channel's program.                      *)
(*                                                                         *)
(* Floating point expressions of the effects are evaluated in exact        *)
(* rational or fixed point arithmetic (scale FixedOne) and truncated the   *)
(* way the conversion to uint16_t truncates.                               *)
(***************************************************************************)
EXTENDS Integers, Sequences, FiniteSets, TLC

VARIABLES
    now,               \* millis(): milliseconds since boot
    lastProgramUpdate, \* static local of loop()
    leds,              \* the LED objects of every module, by <<module, led>>
    heap,              \* contents of the ProgramState objects, by heap slot
    live,              \* heap slots that hold an allocated ProgramState
    doubleFree,        \* a delete hit a slot that was not allocated
    applies,           \* applyLedBrightness calls per LED in the last step
    prefs,             \* Preferences namespace of the LED configurations
    config,            \* Preferences namespaces of the module and global configuration
    last,              \* the last operation called, its return value and the
                       \* program type its LED had before
    calls,             \* API calls made so far
    ticks,             \* iterations of loop() made so far
    upd,               \* where the loop task is inside ProgramManager::update
    stale,             \* an effect used a ProgramState deleted after it fetched it
    logger,            \* the LogManager, its lock flag and where each task is inside it
    hardware           \* per module whether its PCA9685 driver initialized, and per LED
                       \* the applyLedBrightness calls of the last step that failed

vars == <<now, lastProgramUpdate, leds, heap, live, doubleFree, applies, prefs, config,
          last, calls, ticks, upd, stale, logger, hardware>>

----------------------------------------------------------------------------
(* Bounds of the model *)

\* modules found by ModuleManager::scanModules
ModuleCount == 1
\* LEDs of each module (config.getPca9685LedMax())
LedCount == 2
\* iterations of loop() followed
MaxTicks == 3
\* API calls (assign, unassign, initialize, requests, save, load) followed
MaxCalls == 3
\* ProgramState objects that may be left unreachable before the heap is full
MaxLeaked == 1

----------------------------------------------------------------------------
(* Program constants *)

MAX_BRIGHTNESS == 4095

\* delay(1000) of setup(): millis() is at least this when setup() returns
SETUP_DELAY == 1000

PROGRAM_NONE == 0
PROGRAM_WELDING == 1
PROGRAM_HEARTBEAT == 2
PROGRAM_BREATHING == 3
PROGRAM_SIMPLE_BLINK == 4
PROGRAM_TV_FLICKER == 5
PROGRAM_FIREBOX_GLOW == 6
PROGRAM_CANDLE_FLICKER == 7
PROGRAM_FRENCH_CROSSING == 8

ProgramType == PROGRAM_NONE..PROGRAM_FRENCH_CROSSING

WELDING_MIN_INTERVAL == 10
WELDING_MAX_INTERVAL == 300
WELDING_MIN_DURATION == 10
WELDING_MAX_DURATION == 100
WELDING_MIN_INTENSITY == 10
WELDING_MAX_INTENSITY == 3000

HEARTBEAT_CYCLE_DURATION == 1000
HEARTBEAT_BEAT1_DURATION == 100
HEARTBEAT_PAUSE1_DURATION == 80
HEARTBEAT_BEAT2_DURATION == 60
HEARTBEAT_INTENSITY == 3500

BREATHING_CYCLE_DURATION == 4000
BREATHING_INHALE_DURATION == 1500
BREATHING_HOLD_DURATION == 500
BREATHING_EXHALE_DURATION == 1500
BREATHING_MAX_INTENSITY == 4095
BREATHING_MIN_INTENSITY == 0

SIMPLE_BLINK_ON_DURATION == 1000
SIMPLE_BLINK_OFF_DURATION == 1000
SIMPLE_BLINK_INTENSITY == 4095

TV_FLICKER_BASE_INTENSITY == 800
TV_FLICKER_MAX_INTENSITY == 2500
TV_FLICKER_MIN_INTENSITY == 200
TV_FLICKER_MIN_INTERVAL == 40
TV_FLICKER_MAX_INTERVAL == 200
TV_FLICKER_FLASH_PROBABILITY == 15
TV_FLICKER_DIM_PROBABILITY == 10

FIREBOX_BASE_INTENSITY == 2200
FIREBOX_MAX_INTENSITY == 4095
FIREBOX_MIN_INTENSITY == 1200
FIREBOX_MIN_INTERVAL == 60
FIREBOX_MAX_INTERVAL == 400
FIREBOX_EMBER_POP_PROBABILITY == 15
FIREBOX_FLAME_SURGE_PROBABILITY == 8
FIREBOX_WIND_GUST_PROBABILITY == 5
FIREBOX_EMBER_DURATION == 150
FIREBOX_SURGE_DURATION == 800
FIREBOX_WIND_DURATION == 1200

CANDLE_BASE_INTENSITY == 2800
CANDLE_MAX_INTENSITY == 3800
CANDLE_MIN_INTENSITY == 1800
CANDLE_MIN_INTERVAL == 50
CANDLE_MAX_INTERVAL == 300
CANDLE_STRONG_FLICKER_PROBABILITY == 12
CANDLE_DIP_PROBABILITY == 8

FRENCH_CROSSING_ON_DURATION == 500
FRENCH_CROSSING_OFF_DURATION == 500
FRENCH_CROSSING_MAX_INTENSITY == 4095
FRENCH_CROSSING_WARMUP_DURATION == 100
FRENCH_CROSSING_COOLDOWN_DURATION == 150
FRENCH_CROSSING_WARMUP_MIN == 0

----------------------------------------------------------------------------
(* Integer types and Arduino helpers *)

\* conversion of an int to uint16_t
U16(x) == x % 65536

\* conversion of an int to int16_t
I16(x) == LET u == x % 65536 IN IF u >= 32768 THEN u - 65536 ELSE u

\* conversion of an int to uint8_t
U8(x) == x % 256

\* An unsigned long timestamp is kept as its distance from the instant the
\* 32-bit counter of millis() wraps to 0: t >= 0 is the counter value t, and
\* t < 0 is the counter value 2^32 + t, shown -t milliseconds before the wrap.
\* a - b on unsigned long timestamps: a difference that wraps is 2^32 + a - b,
\* kept as 2^31 + a - b, above every bound it is compared to
MillisDiff(a, b) == IF a - b >= 0 THEN a - b ELSE (2147483647 + (a - b)) + 1

\* a >= b on unsigned long timestamps, which compares the counter values
MillisGe(a, b) == IF (a < 0) = (b < 0) THEN a >= b ELSE a < 0

\* C integer division, which truncates toward zero
CDiv(a, b) == IF a >= 0 THEN a \div b ELSE -((-a) \div b)

AbsInt(x) == IF x < 0 THEN -x ELSE x

\* Arduino constrain(amt, low, high)
constrain(amt, low, high) == IF amt < low THEN low ELSE IF amt > high THEN high ELSE amt

----------------------------------------------------------------------------
(* The objects *)

Modules == 0..(ModuleCount - 1)
Leds == 0..(LedCount - 1)
Chan == Modules \X Leds

\* heap slots; nullptr is 0
HeapSlots == 1..(ModuleCount * LedCount + MaxLeaked)
NULLPTR == 0

\* struct ProgramState, value-initialized by new ProgramState(); a key of
\* parameters that was never written reads as 0
ProgramState == [last_update |-> 0, next_event |-> 0, active |-> FALSE, start_time |-> 0,
                 current_intensity |-> 0,
                 parameters |-> [effect_type |-> 0, effect_start_time |-> 0,
                                 phase_start_time |-> 0, current_phase |-> 0]]

\* LED::LED(), the default constructor
LED == [brightness |-> 0, enabled |-> FALSE, program_type |-> PROGRAM_NONE,
        program_state |-> NULLPTR]

\* The part of the system the operations work on
World == [leds |-> leds, heap |-> heap, live |-> live, doubleFree |-> doubleFree,
          applies |-> applies, hardware |-> hardware]

NoApplies == [c \in Chan |-> 0]

\* the modules after ModuleManager::initialize, every driver initialized
Hardware == [initialized |-> [m \in Modules |-> TRUE], failed |-> NoApplies]

\* ModuleManager::getModule(index) != nullptr
getModule(module_id) == module_id \in Modules

\* ModuleManager::getLED(module, led) != nullptr
getLED(module_id, led_id) == getModule(module_id) /\ led_id \in Leds

\* LED::setBrightness storing its argument as it is
setBrightness_unclamped(brightness) == brightness

\* LED::setBrightness, the value stored for an argument already converted to uint16_t
setBrightness(brightness) ==
    IF brightness > MAX_BRIGHTNESS THEN MAX_BRIGHTNESS ELSE brightness

\* led->setBrightness(value) on LED c, with the implicit conversion of the argument
WriteBrightness(W, c, value) ==
    [W EXCEPT !.leds[c].brightness = setBrightness(U16(value))]

\* LED::setProgram
setProgram(W, c, program_type, program_state) ==
    [W EXCEPT !.leds[c].program_type = program_type,
              !.leds[c].program_state = program_state]

\* LED::setEnabled
setEnabled(W, c, enabled) == [W EXCEPT !.leds[c].enabled = enabled]

\* ModuleManager::applyLedBrightness: one more call for LED c; it writes the
\* PWM registers and returns true, or returns false when the driver of the
\* module is not initialized
applyLedBrightness(W, c) ==
    [W EXCEPT !.applies[c] = @ + 1,
              !.hardware.failed[c] = IF W.hardware.initialized[c[1]] THEN @ ELSE @ + 1]

\* the slot new ProgramState() returns: the lowest free one
NewSlot(W) == CHOOSE s \in HeapSlots \ W.live : \A t \in HeapSlots \ W.live : s <= t

\* new ProgramState() into slot s
NewProgramState(W, s) ==
    [W EXCEPT !.live = @ \cup {s}, !.heap[s] = ProgramState]

\* delete p
DeleteProgramState(W, p) ==
    IF p = NULLPTR THEN W
    ELSE [W EXCEPT !.live = @ \ {p},
                   !.heap[p] = ProgramState,
                   !.doubleFree = @ \/ (p \notin W.live)]

----------------------------------------------------------------------------
(* The shared pseudo-random source *)

\* What one call of an operation draws: dial selects the value every
\* random(min, max) call returns, pct the value of each random(0, 100) call
Dials == {0, 1, 2}
Pcts == {0, 16, 25, 50}
Rnd == [dial : Dials, pct : Pcts]

\* Arduino random(min, max): a value of min..max-1
random(rnd, min, max) ==
    IF rnd.dial = 0 THEN min
    ELSE IF rnd.dial = 1 THEN (min + max - 1) \div 2
    ELSE max - 1

----------------------------------------------------------------------------
(* ProgramManager: assignment lifecycle *)

\* ProgramManager::initialize_default_state
initialize_default_state(state, millis) ==
    [state EXCEPT !.last_update = 0, !.start_time = millis, !.active = TRUE,
                  !.current_intensity = 0]

\* a welding state whose first flash is due at once
initialize_welding_state_without_delay(state, millis, rnd) ==
    [state EXCEPT !.last_update = 0, !.next_event = millis,
                  !.active = FALSE, !.start_time = 0, !.current_intensity = 0]

\* ProgramManager::initialize_welding_state
initialize_welding_state(state, millis, rnd) ==
    [state EXCEPT !.last_update = 0, !.next_event = millis + random(rnd, 1000, 3000),
                  !.active = FALSE, !.start_time = 0, !.current_intensity = 0]

\* ProgramManager::initialize_led_state
initialize_led_state(W, module_id, led_id, millis, rnd) ==
    IF ~getModule(module_id) \/ ~getLED(module_id, led_id) THEN W
    ELSE LET c == <<module_id, led_id>>
             t == W.leds[c].program_type
             p == W.leds[c].program_state
         IN IF t = PROGRAM_WELDING
            THEN [W EXCEPT !.heap[p] = initialize_welding_state(@, millis, rnd)]
            ELSE IF t \in ProgramType \ {PROGRAM_NONE}
            THEN [W EXCEPT !.heap[p] = initialize_default_state(@, millis)]
            ELSE W

\* unassign_program that deletes the state and leaves the program type
unassign_program_keeps_type(W, module_id, led_id) ==
    IF ~getModule(module_id) \/ ~getLED(module_id, led_id)
    THEN [w |-> W, ret |-> FALSE]
    ELSE LET c == <<module_id, led_id>>
             p == W.leds[c].program_state
         IN [w |-> setProgram(DeleteProgramState(W, p), c, W.leds[c].program_type, NULLPTR),
             ret |-> TRUE]

\* unassign_program that sets the program type and leaves the state
unassign_program_keeps_state(W, module_id, led_id) ==
    IF ~getModule(module_id) \/ ~getLED(module_id, led_id)
    THEN [w |-> W, ret |-> FALSE]
    ELSE LET c == <<module_id, led_id>>
         IN [w |-> setProgram(W, c, PROGRAM_NONE, W.leds[c].program_state), ret |-> TRUE]

\* unassign_program that turns the LED off
unassign_program_zeroes_duty(W, module_id, led_id) ==
    IF ~getModule(module_id) \/ ~getLED(module_id, led_id)
    THEN [w |-> W, ret |-> FALSE]
    ELSE LET c == <<module_id, led_id>>
             p == W.leds[c].program_state
             W1 == IF p # NULLPTR
                   THEN setProgram(DeleteProgramState(W, p), c, W.leds[c].program_type, NULLPTR)
                   ELSE W
             W2 == setProgram(W1, c, PROGRAM_NONE, W1.leds[c].program_state)
         IN [w |-> applyLedBrightness(WriteBrightness(W2, c, 0), c), ret |-> TRUE]

\* unassign_program that switches off every LED of the module
unassign_program_darkens_module(W, module_id, led_id) ==
    IF ~getModule(module_id) \/ ~getLED(module_id, led_id)
    THEN [w |-> W, ret |-> FALSE]
    ELSE LET c == <<module_id, led_id>>
             p == W.leds[c].program_state
             W1 == IF p # NULLPTR
                   THEN setProgram(DeleteProgramState(W, p), c, W.leds[c].program_type, NULLPTR)
                   ELSE W
             W2 == setProgram(W1, c, PROGRAM_NONE, W1.leds[c].program_state)
         IN [w |-> [W2 EXCEPT !.leds = [d \in Chan |->
                                           IF d[1] = module_id
                                           THEN [W2.leds[d] EXCEPT !.brightness = 0]
                                           ELSE W2.leds[d]]],
             ret |-> TRUE]

\* ProgramManager::unassign_program
unassign_program(W, module_id, led_id) ==
    IF ~getModule(module_id) \/ ~getLED(module_id, led_id)
    THEN [w |-> W, ret |-> FALSE]
    ELSE LET c == <<module_id, led_id>>
             p == W.leds[c].program_state
             W1 == IF p # NULLPTR
                   THEN setProgram(DeleteProgramState(W, p), c, W.leds[c].program_type, NULLPTR)
                   ELSE W
             W2 == setProgram(W1, c, PROGRAM_NONE, W1.leds[c].program_state)
         IN [w |-> W2, ret |-> TRUE]

\* assign_program that does not delete the state it replaces
assign_program_without_delete(W, module_id, led_id, program_type, millis, rnd) ==
    IF ~getModule(module_id) \/ ~getLED(module_id, led_id)
    THEN [w |-> W, ret |-> FALSE]
    ELSE IF program_type = PROGRAM_NONE
    THEN unassign_program(W, module_id, led_id)
    ELSE LET c == <<module_id, led_id>>
             s == NewSlot(W)
             W2 == setProgram(NewProgramState(W, s), c, program_type, s)
         IN [w |-> initialize_led_state(W2, module_id, led_id, millis, rnd), ret |-> TRUE]

\* assign_program that reports success for a LED that does not exist
assign_program_true_for_missing_led(W, module_id, led_id, program_type, millis, rnd) ==
    IF ~getModule(module_id) \/ ~getLED(module_id, led_id)
    THEN [w |-> W, ret |-> TRUE]
    ELSE IF program_type = PROGRAM_NONE
    THEN unassign_program(W, module_id, led_id)
    ELSE LET c == <<module_id, led_id>>
             W1 == DeleteProgramState(W, W.leds[c].program_state)
             s == NewSlot(W1)
             W2 == setProgram(NewProgramState(W1, s), c, program_type, s)
         IN [w |-> initialize_led_state(W2, module_id, led_id, millis, rnd), ret |-> TRUE]

\* assign_program without the hand-over of PROGRAM_NONE to unassign_program
assign_program_none_as_program(W, module_id, led_id, program_type, millis, rnd) ==
    IF ~getModule(module_id) \/ ~getLED(module_id, led_id)
    THEN [w |-> W, ret |-> FALSE]
    ELSE LET c == <<module_id, led_id>>
             W1 == DeleteProgramState(W, W.leds[c].program_state)
             s == NewSlot(W1)
             W2 == setProgram(NewProgramState(W1, s), c, program_type, s)
         IN [w |-> initialize_led_state(W2, module_id, led_id, millis, rnd), ret |-> TRUE]

\* assign_program that keeps the state of a LED that has one
assign_program_keeps_state(W, module_id, led_id, program_type, millis, rnd) ==
    IF ~getModule(module_id) \/ ~getLED(module_id, led_id)
    THEN [w |-> W, ret |-> FALSE]
    ELSE IF program_type = PROGRAM_NONE
    THEN unassign_program(W, module_id, led_id)
    ELSE LET c == <<module_id, led_id>>
             p == W.leds[c].program_state
             s == NewSlot(W)
             W2 == setProgram(NewProgramState(W, s), c, program_type, s)
         IN IF p # NULLPTR
            THEN [w |-> setProgram(W, c, program_type, p), ret |-> TRUE]
            ELSE [w |-> initialize_led_state(W2, module_id, led_id, millis, rnd),
                  ret |-> TRUE]

\* ProgramManager::assign_program
assign_program(W, module_id, led_id, program_type, millis, rnd) ==
    IF ~getModule(module_id) \/ ~getLED(module_id, led_id)
    THEN [w |-> W, ret |-> FALSE]
    ELSE IF program_type = PROGRAM_NONE
    THEN unassign_program(W, module_id, led_id)
    ELSE LET c == <<module_id, led_id>>
             W1 == DeleteProgramState(W, W.leds[c].program_state)
             s == NewSlot(W1)
             W2 == setProgram(NewProgramState(W1, s), c, program_type, s)
         IN [w |-> initialize_led_state(W2, module_id, led_id, millis, rnd), ret |-> TRUE]

\* is_program_assigned that answers for a LED that does not exist
is_program_assigned_for_missing_led(W, module_id, led_id) ==
    IF ~getModule(module_id) THEN FALSE
    ELSE IF getLED(module_id, led_id)
         THEN W.leds[<<module_id, led_id>>].program_type # PROGRAM_NONE
         ELSE TRUE

\* ProgramManager::is_program_assigned
is_program_assigned(W, module_id, led_id) ==
    IF ~getModule(module_id) THEN FALSE
    ELSE IF getLED(module_id, led_id)
         THEN W.leds[<<module_id, led_id>>].program_type # PROGRAM_NONE
         ELSE FALSE

\* ProgramManager::get_program_type
get_program_type(W, module_id, led_id) ==
    IF ~getModule(module_id) THEN PROGRAM_NONE
    ELSE IF getLED(module_id, led_id)
         THEN W.leds[<<module_id, led_id>>].program_type
         ELSE PROGRAM_NONE

\* the LEDs in the order of the loops over modules and LEDs
ChanSeq == [i \in 1..(ModuleCount * LedCount) |->
               <<(i - 1) \div LedCount, (i - 1) % LedCount>>]

\* get_assigned_programs that lists the enabled LEDs only
get_assigned_programs_enabled_only(W) ==
    SelectSeq(ChanSeq, LAMBDA c : W.leds[c].program_type # PROGRAM_NONE /\ W.leds[c].enabled)

\* ProgramManager::get_assigned_programs: the entries of "assigned_programs"
get_assigned_programs(W) ==
    SelectSeq(ChanSeq, LAMBDA c : W.leds[c].program_type # PROGRAM_NONE)

\* ProgramManager::get_program_name
get_program_name(type) ==
    IF type = PROGRAM_WELDING THEN "Welding"
    ELSE IF type = PROGRAM_HEARTBEAT THEN "Heartbeat"
    ELSE IF type = PROGRAM_BREATHING THEN "Breathing"
    ELSE IF type = PROGRAM_SIMPLE_BLINK THEN "Simple Blink"
    ELSE IF type = PROGRAM_TV_FLICKER THEN "TV Flicker"
    ELSE IF type = PROGRAM_FIREBOX_GLOW THEN "Firebox Glow"
    ELSE IF type = PROGRAM_CANDLE_FLICKER THEN "Candle Flicker"
    ELSE IF type = PROGRAM_FRENCH_CROSSING THEN "French Level Crossing"
    ELSE "None"

\* the JsonObject ProgramManager::get_assigned_programs adds for LED c
AssignedProgram(W, c) ==
    [module_id |-> U8(c[1]), led_id |-> U8(c[2]),
     program_type |-> W.leds[c].program_type,
     program_name |-> get_program_name(W.leds[c].program_type),
     enabled |-> W.leds[c].enabled]

\* the JsonDocument ProgramManager::get_assigned_programs returns
AssignedProgramsDocument(W) ==
    LET programs == get_assigned_programs(W)
    IN [assigned_programs |-> [i \in 1..Len(programs) |-> AssignedProgram(W, programs[i])],
        total |-> Len(programs)]

\* the loop body of initialize that keeps a state the LED already holds
InitializeEntry_keeps_state(W, c, program_type, millis, rnd) ==
    IF W.leds[c].program_state # NULLPTR THEN W
    ELSE LET s == NewSlot(W)
             W2 == setProgram(NewProgramState(W, s), c, program_type, s)
         IN initialize_led_state(W2, c[1], c[2], millis, rnd)

\* the body of the loop of ProgramManager::initialize for one entry
InitializeEntry(W, c, program_type, millis, rnd) ==
    LET W1 == DeleteProgramState(W, W.leds[c].program_state)
        s == NewSlot(W1)
        W2 == setProgram(NewProgramState(W1, s), c, program_type, s)
    IN initialize_led_state(W2, c[1], c[2], millis, rnd)

RECURSIVE InitializeFrom(_, _, _, _, _)
InitializeFrom(W, programs, i, millis, rnd) ==
    IF i > Len(programs) THEN W
    ELSE InitializeFrom(InitializeEntry(W, programs[i],
                                        W.leds[programs[i]].program_type, millis, rnd),
                        programs, i + 1, millis, rnd)

\* ProgramManager::initialize
initialize(W, millis, rnd) ==
    [w |-> InitializeFrom(W, get_assigned_programs(W), 1, millis, rnd), ret |-> TRUE]

----------------------------------------------------------------------------
(* Fixed point evaluation of the float expressions *)

\* 1.0 in fixed point
FixedOne == 10000

\* sin(k * PI / 64) * FixedOne, k = 0..32
SinTable == <<0, 491, 980, 1467, 1951, 2430, 2903, 3369, 3827, 4276, 4714, 5141, 5556,
              5957, 6344, 6716, 7071, 7410, 7730, 8032, 8315, 8577, 8819, 9040, 9239,
              9415, 9569, 9700, 9808, 9892, 9952, 9988, 10000>>

\* exp(-k / 10) * FixedOne, k = 0..40
ExpTable == <<10000, 9048, 8187, 7408, 6703, 6065, 5488, 4966, 4493, 4066, 3679, 3329,
              3012, 2725, 2466, 2231, 2019, 1827, 1653, 1496, 1353, 1225, 1108, 1003,
              907, 821, 743, 672, 608, 550, 498, 450, 408, 369, 334, 302, 273, 247, 224,
              202, 183>>

\* (float)num / den, in fixed point
Progress(num, den) == (num * FixedOne) \div den

\* sin(q * PI / 2) for q in [0, 1], both in fixed point, interpolated in SinTable
SinQuarter(q) ==
    LET i == (q * 32) \div FixedOne
    IN IF i >= 32 THEN SinTable[33]
       ELSE SinTable[i + 1]
            + ((SinTable[i + 2] - SinTable[i + 1]) * (q * 32 - i * FixedOne)) \div FixedOne

\* sin(q * PI / 2) for any q >= 0, both in fixed point
Sin(q) ==
    LET r == q % (4 * FixedOne)
    IN IF r <= FixedOne THEN SinQuarter(r)
       ELSE IF r <= 2 * FixedOne THEN SinQuarter(2 * FixedOne - r)
       ELSE IF r <= 3 * FixedOne THEN -SinQuarter(r - 2 * FixedOne)
       ELSE -SinQuarter(4 * FixedOne - r)

\* cos(q * PI / 2) for q in [0, 1], both in fixed point
CosQuarter(q) == SinQuarter(FixedOne - q)

\* exp(-x) for x in [0, 4], both in fixed point, interpolated in ExpTable
ExpNeg(x) ==
    LET i == x \div 1000
    IN IF i >= 40 THEN ExpTable[41]
       ELSE ExpTable[i + 1] + ((ExpTable[i + 2] - ExpTable[i + 1]) * (x - i * 1000)) \div 1000

\* value * f for a fixed point f, truncated as the conversion to uint16_t truncates
Scale(value, f) == CDiv(value * f, FixedOne)

----------------------------------------------------------------------------
(* ProgramManager: the effects *)

\* the ProgramState of LED c, state = led_info->getProgramState()
StateOf(W, c) == W.heap[W.leds[c].program_state]

\* the end of an effect that does not record the time of the tick
Finish_without_stamp(W, c, st, current_millis) ==
    [W EXCEPT !.heap[W.leds[c].program_state] = st]

\* state->last_update = current_millis after the fields of st were written
Finish(W, c, st, current_millis) ==
    [W EXCEPT !.heap[W.leds[c].program_state] = [st EXCEPT !.last_update = current_millis]]

\* a welding that starts a new flash when one is due, over an active one too
update_welding_program_restarts(W, c, current_millis, rnd) ==
    LET state == StateOf(W, c)
        start == MillisGe(current_millis, state.next_event)
        s1 == IF start
              THEN [state EXCEPT
                      !.active = TRUE,
                      !.start_time = current_millis,
                      !.current_intensity =
                          U16(random(rnd, WELDING_MIN_INTENSITY, WELDING_MAX_INTENSITY + 1)),
                      !.next_event = current_millis
                          + random(rnd, WELDING_MIN_DURATION, WELDING_MAX_DURATION + 1)
                          + random(rnd, WELDING_MIN_INTERVAL, WELDING_MAX_INTERVAL + 1)]
              ELSE state
        W1 == IF start
              THEN applyLedBrightness(WriteBrightness(W, c, s1.current_intensity), c)
              ELSE W
        elapsed_time == MillisDiff(current_millis, s1.start_time)
        current_welding_duration == (WELDING_MIN_DURATION + WELDING_MAX_DURATION) \div 2
        variation == U16(random(rnd, -200, 201))
        \* elapsed_time < current_welding_duration * 0.7
        hold == 10 * elapsed_time < 7 * current_welding_duration
        \* current_intensity * (1.0 - fade_progress)
        faded == (s1.current_intensity * 10 * (current_welding_duration - elapsed_time))
                     \div (3 * current_welding_duration)
        W2 == IF ~s1.active THEN W1
              ELSE IF hold
              THEN applyLedBrightness(
                       WriteBrightness(W1, c,
                           U16(constrain(s1.current_intensity + variation, 0, 4095))), c)
              ELSE IF elapsed_time < current_welding_duration
              THEN applyLedBrightness(WriteBrightness(W1, c, faded), c)
              ELSE applyLedBrightness(WriteBrightness(W1, c, 0), c)
        s2 == IF s1.active /\ ~hold /\ elapsed_time >= current_welding_duration
              THEN [s1 EXCEPT !.active = FALSE]
              ELSE s1
    IN IF MillisDiff(current_millis, state.last_update) < 10 THEN W
       ELSE Finish(W2, c, s2, current_millis)

\* update_welding_program that never ends a flash
update_welding_program_stays_active(W, c, current_millis, rnd) ==
    LET state == StateOf(W, c)
        start == ~state.active /\ MillisGe(current_millis, state.next_event)
        s1 == IF start
              THEN [state EXCEPT
                      !.active = TRUE,
                      !.start_time = current_millis,
                      !.current_intensity =
                          U16(random(rnd, WELDING_MIN_INTENSITY, WELDING_MAX_INTENSITY + 1)),
                      !.next_event = current_millis
                          + random(rnd, WELDING_MIN_DURATION, WELDING_MAX_DURATION + 1)
                          + random(rnd, WELDING_MIN_INTERVAL, WELDING_MAX_INTERVAL + 1)]
              ELSE state
        W1 == IF start
              THEN applyLedBrightness(WriteBrightness(W, c, s1.current_intensity), c)
              ELSE W
        elapsed_time == MillisDiff(current_millis, s1.start_time)
        current_welding_duration == (WELDING_MIN_DURATION + WELDING_MAX_DURATION) \div 2
        variation == U16(random(rnd, -200, 201))
        \* elapsed_time < current_welding_duration * 0.7
        hold == 10 * elapsed_time < 7 * current_welding_duration
        \* current_intensity * (1.0 - fade_progress)
        faded == (s1.current_intensity * 10 * (current_welding_duration - elapsed_time))
                     \div (3 * current_welding_duration)
        W2 == IF ~s1.active THEN W1
              ELSE IF hold
              THEN applyLedBrightness(
                       WriteBrightness(W1, c,
                           U16(constrain(s1.current_intensity + variation, 0, 4095))), c)
              ELSE IF elapsed_time < current_welding_duration
              THEN applyLedBrightness(WriteBrightness(W1, c, faded), c)
              ELSE applyLedBrightness(WriteBrightness(W1, c, 0), c)
        s2 == IF s1.active /\ ~hold /\ elapsed_time >= current_welding_duration /\ FALSE
              THEN [s1 EXCEPT !.active = FALSE]
              ELSE s1
    IN IF MillisDiff(current_millis, state.last_update) < 10 THEN W
       ELSE Finish(W2, c, s2, current_millis)

\* ProgramManager::update_welding_program
update_welding_program(W, c, current_millis, rnd) ==
    LET state == StateOf(W, c)
        start == ~state.active /\ MillisGe(current_millis, state.next_event)
        s1 == IF start
              THEN [state EXCEPT
                      !.active = TRUE,
                      !.start_time = current_millis,
                      !.current_intensity =
                          U16(random(rnd, WELDING_MIN_INTENSITY, WELDING_MAX_INTENSITY + 1)),
                      !.next_event = current_millis
                          + random(rnd, WELDING_MIN_DURATION, WELDING_MAX_DURATION + 1)
                          + random(rnd, WELDING_MIN_INTERVAL, WELDING_MAX_INTERVAL + 1)]
              ELSE state
        W1 == IF start
              THEN applyLedBrightness(WriteBrightness(W, c, s1.current_intensity), c)
              ELSE W
        elapsed_time == MillisDiff(current_millis, s1.start_time)
        current_welding_duration == (WELDING_MIN_DURATION + WELDING_MAX_DURATION) \div 2
        variation == U16(random(rnd, -200, 201))
        \* elapsed_time < current_welding_duration * 0.7
        hold == 10 * elapsed_time < 7 * current_welding_duration
        \* current_intensity * (1.0 - fade_progress)
        faded == (s1.current_intensity * 10 * (current_welding_duration - elapsed_time))
                     \div (3 * current_welding_duration)
        W2 == IF ~s1.active THEN W1
              ELSE IF hold
              THEN applyLedBrightness(
                       WriteBrightness(W1, c,
                           U16(constrain(s1.current_intensity + variation, 0, 4095))), c)
              ELSE IF elapsed_time < current_welding_duration
              THEN applyLedBrightness(WriteBrightness(W1, c, faded), c)
              ELSE applyLedBrightness(WriteBrightness(W1, c, 0), c)
        s2 == IF s1.active /\ ~hold /\ elapsed_time >= current_welding_duration
              THEN [s1 EXCEPT !.active = FALSE]
              ELSE s1
    IN IF MillisDiff(current_millis, state.last_update) < 10 THEN W
       ELSE Finish(W2, c, s2, current_millis)

\* a heartbeat whose first beat is at the maximum duty value
HeartbeatBrightness_full_scale(cycle_time) ==
    IF cycle_time < HEARTBEAT_BEAT1_DURATION THEN MAX_BRIGHTNESS
    ELSE IF cycle_time < HEARTBEAT_BEAT1_DURATION + HEARTBEAT_PAUSE1_DURATION THEN 0
    ELSE IF cycle_time < HEARTBEAT_BEAT1_DURATION + HEARTBEAT_PAUSE1_DURATION
                             + HEARTBEAT_BEAT2_DURATION
    THEN (HEARTBEAT_INTENSITY * 6) \div 10
    ELSE 0

\* a heartbeat whose second beat is as strong as the first
HeartbeatBrightness_equal_beats(cycle_time) ==
    IF cycle_time < HEARTBEAT_BEAT1_DURATION THEN HEARTBEAT_INTENSITY
    ELSE IF cycle_time < HEARTBEAT_BEAT1_DURATION + HEARTBEAT_PAUSE1_DURATION THEN 0
    ELSE IF cycle_time < HEARTBEAT_BEAT1_DURATION + HEARTBEAT_PAUSE1_DURATION
                             + HEARTBEAT_BEAT2_DURATION
    THEN HEARTBEAT_INTENSITY
    ELSE 0

\* target_brightness of ProgramManager::update_heartbeat_program at cycle_time
HeartbeatBrightness(cycle_time) ==
    IF cycle_time < HEARTBEAT_BEAT1_DURATION THEN HEARTBEAT_INTENSITY
    ELSE IF cycle_time < HEARTBEAT_BEAT1_DURATION + HEARTBEAT_PAUSE1_DURATION THEN 0
    ELSE IF cycle_time < HEARTBEAT_BEAT1_DURATION + HEARTBEAT_PAUSE1_DURATION
                             + HEARTBEAT_BEAT2_DURATION
    THEN (HEARTBEAT_INTENSITY * 6) \div 10
    ELSE 0

\* ProgramManager::update_heartbeat_program
update_heartbeat_program(W, c, current_millis, rnd) ==
    LET state == StateOf(W, c)
        s1 == IF state.start_time = 0 THEN [state EXCEPT !.start_time = current_millis]
              ELSE state
        cycle_time == MillisDiff(current_millis, s1.start_time) % HEARTBEAT_CYCLE_DURATION
        W1 == applyLedBrightness(WriteBrightness(W, c, HeartbeatBrightness(cycle_time)), c)
    IN IF MillisDiff(current_millis, state.last_update) < 20 THEN W
       ELSE Finish(W1, c, s1, current_millis)

\* a breathing whose exhale follows the sine, as the inhale does
BreathingBrightness_exhale_rises(cycle_time) ==
    IF cycle_time < BREATHING_INHALE_DURATION
    THEN Scale(BREATHING_MAX_INTENSITY,
               SinQuarter(Progress(cycle_time, BREATHING_INHALE_DURATION)))
    ELSE IF cycle_time < BREATHING_INHALE_DURATION + BREATHING_HOLD_DURATION
    THEN BREATHING_MAX_INTENSITY
    ELSE IF cycle_time < BREATHING_INHALE_DURATION + BREATHING_HOLD_DURATION
                             + BREATHING_EXHALE_DURATION
    THEN Scale(BREATHING_MAX_INTENSITY,
               SinQuarter(Progress(cycle_time - BREATHING_INHALE_DURATION
                                       - BREATHING_HOLD_DURATION,
                                   BREATHING_EXHALE_DURATION)))
    ELSE BREATHING_MIN_INTENSITY

\* target_brightness of ProgramManager::update_breathing_program at cycle_time
BreathingBrightness(cycle_time) ==
    IF cycle_time < BREATHING_INHALE_DURATION
    THEN Scale(BREATHING_MAX_INTENSITY,
               SinQuarter(Progress(cycle_time, BREATHING_INHALE_DURATION)))
    ELSE IF cycle_time < BREATHING_INHALE_DURATION + BREATHING_HOLD_DURATION
    THEN BREATHING_MAX_INTENSITY
    ELSE IF cycle_time < BREATHING_INHALE_DURATION + BREATHING_HOLD_DURATION
                             + BREATHING_EXHALE_DURATION
    THEN Scale(BREATHING_MAX_INTENSITY,
               CosQuarter(Progress(cycle_time - BREATHING_INHALE_DURATION
                                       - BREATHING_HOLD_DURATION,
                                   BREATHING_EXHALE_DURATION)))
    ELSE BREATHING_MIN_INTENSITY

\* a breathing that moves half the way from the previous duty to the target
update_breathing_program_smoothed(W, c, current_millis, rnd) ==
    LET state == StateOf(W, c)
        s1 == IF state.start_time = 0 THEN [state EXCEPT !.start_time = current_millis]
              ELSE state
        cycle_time == MillisDiff(current_millis, s1.start_time) % BREATHING_CYCLE_DURATION
        W1 == applyLedBrightness(WriteBrightness(W, c,
                  (W.leds[c].brightness + BreathingBrightness(cycle_time)) \div 2), c)
    IN IF MillisDiff(current_millis, state.last_update) < 20 THEN W
       ELSE Finish(W1, c, s1, current_millis)

\* ProgramManager::update_breathing_program
update_breathing_program(W, c, current_millis, rnd) ==
    LET state == StateOf(W, c)
        s1 == IF state.start_time = 0 THEN [state EXCEPT !.start_time = current_millis]
              ELSE state
        cycle_time == MillisDiff(current_millis, s1.start_time) % BREATHING_CYCLE_DURATION
        W1 == applyLedBrightness(WriteBrightness(W, c, BreathingBrightness(cycle_time)), c)
    IN IF MillisDiff(current_millis, state.last_update) < 20 THEN W
       ELSE Finish(W1, c, s1, current_millis)

\* target_brightness of ProgramManager::update_simple_blink_program at cycle_time
SimpleBlinkBrightness(cycle_time) ==
    IF cycle_time < SIMPLE_BLINK_ON_DURATION THEN SIMPLE_BLINK_INTENSITY ELSE 0

\* a simple blink throttled like the smooth effects, at 20 ms
update_simple_blink_program_at_20ms(W, c, current_millis, rnd) ==
    LET state == StateOf(W, c)
        s1 == IF state.start_time = 0 THEN [state EXCEPT !.start_time = current_millis]
              ELSE state
        cycle_time == MillisDiff(current_millis, s1.start_time)
                          % (SIMPLE_BLINK_ON_DURATION + SIMPLE_BLINK_OFF_DURATION)
        W1 == applyLedBrightness(WriteBrightness(W, c, SimpleBlinkBrightness(cycle_time)), c)
    IN IF MillisDiff(current_millis, state.last_update) < 20 THEN W
       ELSE Finish(W1, c, s1, current_millis)

\* ProgramManager::update_simple_blink_program
update_simple_blink_program(W, c, current_millis, rnd) ==
    LET state == StateOf(W, c)
        s1 == IF state.start_time = 0 THEN [state EXCEPT !.start_time = current_millis]
              ELSE state
        cycle_time == MillisDiff(current_millis, s1.start_time)
                          % (SIMPLE_BLINK_ON_DURATION + SIMPLE_BLINK_OFF_DURATION)
        W1 == applyLedBrightness(WriteBrightness(W, c, SimpleBlinkBrightness(cycle_time)), c)
    IN IF MillisDiff(current_millis, state.last_update) < 50 THEN W
       ELSE Finish(W1, c, s1, current_millis)

\* update_tv_flicker_program writing a micro-variation between the events too
update_tv_flicker_program_every_tick(W, c, current_millis, rnd) ==
    LET state == StateOf(W, c)
        event == ~state.active \/ MillisGe(current_millis, state.next_event)
        random_value == U8(rnd.pct)
        variation == I16(random(rnd, -200, 201))
        intensity ==
            IF random_value < TV_FLICKER_FLASH_PROBABILITY
            THEN U16(random(rnd, (TV_FLICKER_MAX_INTENSITY * 8) \div 10,
                            TV_FLICKER_MAX_INTENSITY + 1))
            ELSE IF random_value < TV_FLICKER_FLASH_PROBABILITY + TV_FLICKER_DIM_PROBABILITY
            THEN U16(random(rnd, TV_FLICKER_MIN_INTENSITY, (TV_FLICKER_MIN_INTENSITY * 15) \div 10))
            ELSE constrain(TV_FLICKER_BASE_INTENSITY + variation,
                           TV_FLICKER_MIN_INTENSITY, TV_FLICKER_MAX_INTENSITY)
        s1 == [state EXCEPT
                 !.active = TRUE,
                 !.current_intensity = intensity,
                 !.next_event = current_millis
                     + random(rnd, TV_FLICKER_MIN_INTERVAL, TV_FLICKER_MAX_INTERVAL + 1)]
        micro_variation == I16(random(rnd, -50, 51))
        final_intensity == constrain(s1.current_intensity + micro_variation,
                                     TV_FLICKER_MIN_INTENSITY, TV_FLICKER_MAX_INTENSITY)
        W1 == applyLedBrightness(WriteBrightness(W, c, final_intensity), c)
    IN IF MillisDiff(current_millis, state.last_update) < 20 THEN W
       ELSE IF event THEN Finish(W1, c, s1, current_millis)
       ELSE Finish(applyLedBrightness(WriteBrightness(W, c,
                        constrain(state.current_intensity + micro_variation,
                                  TV_FLICKER_MIN_INTENSITY, TV_FLICKER_MAX_INTENSITY)), c),
                   c, state, current_millis)

\* ProgramManager::update_tv_flicker_program
update_tv_flicker_program(W, c, current_millis, rnd) ==
    LET state == StateOf(W, c)
        event == ~state.active \/ MillisGe(current_millis, state.next_event)
        random_value == U8(rnd.pct)
        variation == I16(random(rnd, -200, 201))
        intensity ==
            IF random_value < TV_FLICKER_FLASH_PROBABILITY
            THEN U16(random(rnd, (TV_FLICKER_MAX_INTENSITY * 8) \div 10,
                            TV_FLICKER_MAX_INTENSITY + 1))
            ELSE IF random_value < TV_FLICKER_FLASH_PROBABILITY + TV_FLICKER_DIM_PROBABILITY
            THEN U16(random(rnd, TV_FLICKER_MIN_INTENSITY, (TV_FLICKER_MIN_INTENSITY * 15) \div 10))
            ELSE constrain(TV_FLICKER_BASE_INTENSITY + variation,
                           TV_FLICKER_MIN_INTENSITY, TV_FLICKER_MAX_INTENSITY)
        s1 == [state EXCEPT
                 !.active = TRUE,
                 !.current_intensity = intensity,
                 !.next_event = current_millis
                     + random(rnd, TV_FLICKER_MIN_INTERVAL, TV_FLICKER_MAX_INTERVAL + 1)]
        micro_variation == I16(random(rnd, -50, 51))
        final_intensity == constrain(s1.current_intensity + micro_variation,
                                     TV_FLICKER_MIN_INTENSITY, TV_FLICKER_MAX_INTENSITY)
        W1 == applyLedBrightness(WriteBrightness(W, c, final_intensity), c)
    IN IF MillisDiff(current_millis, state.last_update) < 20 THEN W
       ELSE IF event THEN Finish(W1, c, s1, current_millis)
       ELSE Finish(W, c, state, current_millis)

\* target_intensity of an active firebox effect after effect_duration milliseconds;
\* the base intensity once the effect is over
FireboxEffectIntensity(current_effect, effect_duration) ==
    IF current_effect = 1 /\ effect_duration < FIREBOX_EMBER_DURATION
    THEN IF 10 * effect_duration < 2 * FIREBOX_EMBER_DURATION
         THEN FIREBOX_BASE_INTENSITY
              + (1800 * 10 * effect_duration) \div (2 * FIREBOX_EMBER_DURATION)
         ELSE FIREBOX_BASE_INTENSITY
              + (1800 * 10 * (FIREBOX_EMBER_DURATION - effect_duration))
                    \div (8 * FIREBOX_EMBER_DURATION)
    ELSE IF current_effect = 2 /\ effect_duration < FIREBOX_SURGE_DURATION
    THEN IF 10 * effect_duration < 3 * FIREBOX_SURGE_DURATION
         THEN FIREBOX_BASE_INTENSITY
              + (1500 * 10 * effect_duration) \div (3 * FIREBOX_SURGE_DURATION)
         ELSE IF 10 * effect_duration < 7 * FIREBOX_SURGE_DURATION
         THEN ((FIREBOX_BASE_INTENSITY + 1500) * FixedOne
               + 300 * Sin(16 * Progress(effect_duration, FIREBOX_SURGE_DURATION)))
                  \div FixedOne
         ELSE FIREBOX_BASE_INTENSITY
              + (1500 * 10 * (FIREBOX_SURGE_DURATION - effect_duration))
                    \div (3 * FIREBOX_SURGE_DURATION)
    ELSE IF current_effect = 3 /\ effect_duration < FIREBOX_WIND_DURATION
    THEN LET progress == Progress(effect_duration, FIREBOX_WIND_DURATION)
             f1 == CDiv(Sin(6 * progress) * Sin(14 * progress), FixedOne)
             f2 == CDiv(f1 * Sin(22 * progress), FixedOne)
             wind_factor == CDiv(f2 * (FixedOne - progress), FixedOne)
         IN (FIREBOX_BASE_INTENSITY * FixedOne + 800 * wind_factor) \div FixedOne
    ELSE FIREBOX_BASE_INTENSITY

\* whether the active firebox effect is over after effect_duration milliseconds
FireboxEffectFinished(current_effect, effect_duration) ==
    \/ current_effect = 1 /\ effect_duration >= FIREBOX_EMBER_DURATION
    \/ current_effect = 2 /\ effect_duration >= FIREBOX_SURGE_DURATION
    \/ current_effect = 3 /\ effect_duration >= FIREBOX_WIND_DURATION

\* the effect a firebox event starts for a draw of random(0, 100); 0 when none
FireboxNewEffect(random_value) ==
    IF random_value < FIREBOX_EMBER_POP_PROBABILITY THEN 1
    ELSE IF random_value < FIREBOX_EMBER_POP_PROBABILITY + FIREBOX_FLAME_SURGE_PROBABILITY
    THEN 2
    ELSE IF random_value < FIREBOX_EMBER_POP_PROBABILITY + FIREBOX_FLAME_SURGE_PROBABILITY
                               + FIREBOX_WIND_GUST_PROBABILITY
    THEN 3
    ELSE 0

\* update_firebox_glow_program testing the stored effect type, not the one read at the start
update_firebox_glow_program_restarts(W, c, current_millis, rnd) ==
    LET state == StateOf(W, c)
        s0 == IF state.start_time = 0
              THEN [state EXCEPT
                      !.start_time = current_millis,
                      !.next_event = current_millis
                          + random(rnd, FIREBOX_MIN_INTERVAL, FIREBOX_MAX_INTERVAL + 1),
                      !.current_intensity = FIREBOX_BASE_INTENSITY,
                      !.parameters.effect_type = 0,
                      !.parameters.effect_start_time = 0]
              ELSE state
        current_effect == U8(s0.parameters.effect_type)
        effect_start == s0.parameters.effect_start_time
        effect_duration == MillisDiff(current_millis, effect_start)
        s1 == IF current_effect > 0 /\ FireboxEffectFinished(current_effect, effect_duration)
              THEN [s0 EXCEPT !.parameters.effect_type = 0]
              ELSE s0
        new_effect == FireboxNewEffect(U8(rnd.pct))
        s2 == IF s1.parameters.effect_type = 0 /\ MillisGe(current_millis, s1.next_event)
              THEN [s1 EXCEPT
                      !.parameters.effect_type = IF new_effect # 0 THEN new_effect ELSE @,
                      !.parameters.effect_start_time =
                          IF new_effect # 0 THEN current_millis ELSE @,
                      !.next_event = current_millis
                          + random(rnd, FIREBOX_MIN_INTERVAL, FIREBOX_MAX_INTERVAL + 1)]
              ELSE s1
        base_variation == I16(random(rnd, -400, 401))
        t1 == IF current_effect = 0
              THEN constrain(FIREBOX_BASE_INTENSITY + base_variation,
                             FIREBOX_MIN_INTENSITY, FIREBOX_MAX_INTENSITY)
              ELSE U16(FireboxEffectIntensity(current_effect, effect_duration))
        micro_variation == I16(random(rnd, -100, 101))
        t2 == constrain(t1 + micro_variation, FIREBOX_MIN_INTENSITY, FIREBOX_MAX_INTENSITY)
        current_brightness == W.leds[c].brightness
        intensity_diff == I16(t2 - current_brightness)
        target_intensity ==
            IF AbsInt(intensity_diff) > 300 /\ current_effect # 1
            THEN IF intensity_diff > 0 THEN U16(current_brightness + 150)
                 ELSE U16(current_brightness - 150)
            ELSE t2
        W1 == applyLedBrightness(WriteBrightness(W, c, target_intensity), c)
    IN IF MillisDiff(current_millis, state.last_update) < 20 THEN W
       ELSE Finish(W1, c, s2, current_millis)

\* update_firebox_glow_program writing every target as it is
update_firebox_glow_program_unsmoothed(W, c, current_millis, rnd) ==
    LET state == StateOf(W, c)
        s0 == IF state.start_time = 0
              THEN [state EXCEPT
                      !.start_time = current_millis,
                      !.next_event = current_millis
                          + random(rnd, FIREBOX_MIN_INTERVAL, FIREBOX_MAX_INTERVAL + 1),
                      !.current_intensity = FIREBOX_BASE_INTENSITY,
                      !.parameters.effect_type = 0,
                      !.parameters.effect_start_time = 0]
              ELSE state
        current_effect == U8(s0.parameters.effect_type)
        effect_start == s0.parameters.effect_start_time
        effect_duration == MillisDiff(current_millis, effect_start)
        s1 == IF current_effect > 0 /\ FireboxEffectFinished(current_effect, effect_duration)
              THEN [s0 EXCEPT !.parameters.effect_type = 0]
              ELSE s0
        new_effect == FireboxNewEffect(U8(rnd.pct))
        s2 == IF current_effect = 0 /\ MillisGe(current_millis, s1.next_event)
              THEN [s1 EXCEPT
                      !.parameters.effect_type = IF new_effect # 0 THEN new_effect ELSE @,
                      !.parameters.effect_start_time =
                          IF new_effect # 0 THEN current_millis ELSE @,
                      !.next_event = current_millis
                          + random(rnd, FIREBOX_MIN_INTERVAL, FIREBOX_MAX_INTERVAL + 1)]
              ELSE s1
        base_variation == I16(random(rnd, -400, 401))
        t1 == IF current_effect = 0
              THEN constrain(FIREBOX_BASE_INTENSITY + base_variation,
                             FIREBOX_MIN_INTENSITY, FIREBOX_MAX_INTENSITY)
              ELSE U16(FireboxEffectIntensity(current_effect, effect_duration))
        micro_variation == I16(random(rnd, -100, 101))
        t2 == constrain(t1 + micro_variation, FIREBOX_MIN_INTENSITY, FIREBOX_MAX_INTENSITY)
        current_brightness == W.leds[c].brightness
        intensity_diff == I16(t2 - current_brightness)
        target_intensity ==
            IF AbsInt(intensity_diff) > MAX_BRIGHTNESS /\ current_effect # 1
            THEN IF intensity_diff > 0 THEN U16(current_brightness + 150)
                 ELSE U16(current_brightness - 150)
            ELSE t2
        W1 == applyLedBrightness(WriteBrightness(W, c, target_intensity), c)
    IN IF MillisDiff(current_millis, state.last_update) < 20 THEN W
       ELSE Finish(W1, c, s2, current_millis)

\* ProgramManager::update_firebox_glow_program
update_firebox_glow_program(W, c, current_millis, rnd) ==
    LET state == StateOf(W, c)
        s0 == IF state.start_time = 0
              THEN [state EXCEPT
                      !.start_time = current_millis,
                      !.next_event = current_millis
                          + random(rnd, FIREBOX_MIN_INTERVAL, FIREBOX_MAX_INTERVAL + 1),
                      !.current_intensity = FIREBOX_BASE_INTENSITY,
                      !.parameters.effect_type = 0,
                      !.parameters.effect_start_time = 0]
              ELSE state
        current_effect == U8(s0.parameters.effect_type)
        effect_start == s0.parameters.effect_start_time
        effect_duration == MillisDiff(current_millis, effect_start)
        s1 == IF current_effect > 0 /\ FireboxEffectFinished(current_effect, effect_duration)
              THEN [s0 EXCEPT !.parameters.effect_type = 0]
              ELSE s0
        new_effect == FireboxNewEffect(U8(rnd.pct))
        s2 == IF current_effect = 0 /\ MillisGe(current_millis, s1.next_event)
              THEN [s1 EXCEPT
                      !.parameters.effect_type = IF new_effect # 0 THEN new_effect ELSE @,
                      !.parameters.effect_start_time =
                          IF new_effect # 0 THEN current_millis ELSE @,
                      !.next_event = current_millis
                          + random(rnd, FIREBOX_MIN_INTERVAL, FIREBOX_MAX_INTERVAL + 1)]
              ELSE s1
        base_variation == I16(random(rnd, -400, 401))
        t1 == IF current_effect = 0
              THEN constrain(FIREBOX_BASE_INTENSITY + base_variation,
                             FIREBOX_MIN_INTENSITY, FIREBOX_MAX_INTENSITY)
              ELSE U16(FireboxEffectIntensity(current_effect, effect_duration))
        micro_variation == I16(random(rnd, -100, 101))
        t2 == constrain(t1 + micro_variation, FIREBOX_MIN_INTENSITY, FIREBOX_MAX_INTENSITY)
        current_brightness == W.leds[c].brightness
        intensity_diff == I16(t2 - current_brightness)
        target_intensity ==
            IF AbsInt(intensity_diff) > 300 /\ current_effect # 1
            THEN IF intensity_diff > 0 THEN U16(current_brightness + 150)
                 ELSE U16(current_brightness - 150)
            ELSE t2
        W1 == applyLedBrightness(WriteBrightness(W, c, target_intensity), c)
    IN IF MillisDiff(current_millis, state.last_update) < 20 THEN W
       ELSE Finish(W1, c, s2, current_millis)

\* update_candle_flicker_program writing a medium change at once
update_candle_flicker_program_without_partial_step(W, c, current_millis, rnd) ==
    LET state == StateOf(W, c)
        s0 == IF state.start_time = 0
              THEN [state EXCEPT
                      !.start_time = current_millis,
                      !.next_event = current_millis
                          + random(rnd, CANDLE_MIN_INTERVAL, CANDLE_MAX_INTERVAL + 1),
                      !.current_intensity = CANDLE_BASE_INTENSITY]
              ELSE state
        random_value == U8(rnd.pct)
        gentle_variation == I16(random(rnd, -150, 151))
        intensity ==
            IF random_value < CANDLE_STRONG_FLICKER_PROBABILITY
            THEN U16(random(rnd, (CANDLE_MAX_INTENSITY * 9) \div 10, CANDLE_MAX_INTENSITY + 1))
            ELSE IF random_value < CANDLE_STRONG_FLICKER_PROBABILITY + CANDLE_DIP_PROBABILITY
            THEN U16(random(rnd, CANDLE_MIN_INTENSITY, (CANDLE_MIN_INTENSITY * 12) \div 10))
            ELSE constrain(CANDLE_BASE_INTENSITY + gentle_variation,
                           CANDLE_MIN_INTENSITY, CANDLE_MAX_INTENSITY)
        s1 == IF MillisGe(current_millis, s0.next_event)
              THEN [s0 EXCEPT
                      !.current_intensity = intensity,
                      !.next_event = current_millis
                          + random(rnd, CANDLE_MIN_INTERVAL, CANDLE_MAX_INTERVAL + 1)]
              ELSE s0
        subtle_variation == I16(random(rnd, -30, 31))
        t1 == constrain(s1.current_intensity + subtle_variation,
                        CANDLE_MIN_INTENSITY, CANDLE_MAX_INTENSITY)
        current_brightness == W.leds[c].brightness
        intensity_diff == I16(t1 - current_brightness)
        target_intensity ==
            IF AbsInt(intensity_diff) > 200
            THEN IF intensity_diff > 0 THEN U16(current_brightness + 80)
                 ELSE U16(current_brightness - 80)
            ELSE IF AbsInt(intensity_diff) > 50
            THEN U16(current_brightness + intensity_diff)
            ELSE t1
        W1 == applyLedBrightness(WriteBrightness(W, c, target_intensity), c)
    IN IF MillisDiff(current_millis, state.last_update) < 25 THEN W
       ELSE Finish(W1, c, s1, current_millis)

\* ProgramManager::update_candle_flicker_program
update_candle_flicker_program(W, c, current_millis, rnd) ==
    LET state == StateOf(W, c)
        s0 == IF state.start_time = 0
              THEN [state EXCEPT
                      !.start_time = current_millis,
                      !.next_event = current_millis
                          + random(rnd, CANDLE_MIN_INTERVAL, CANDLE_MAX_INTERVAL + 1),
                      !.current_intensity = CANDLE_BASE_INTENSITY]
              ELSE state
        random_value == U8(rnd.pct)
        gentle_variation == I16(random(rnd, -150, 151))
        intensity ==
            IF random_value < CANDLE_STRONG_FLICKER_PROBABILITY
            THEN U16(random(rnd, (CANDLE_MAX_INTENSITY * 9) \div 10, CANDLE_MAX_INTENSITY + 1))
            ELSE IF random_value < CANDLE_STRONG_FLICKER_PROBABILITY + CANDLE_DIP_PROBABILITY
            THEN U16(random(rnd, CANDLE_MIN_INTENSITY, (CANDLE_MIN_INTENSITY * 12) \div 10))
            ELSE constrain(CANDLE_BASE_INTENSITY + gentle_variation,
                           CANDLE_MIN_INTENSITY, CANDLE_MAX_INTENSITY)
        s1 == IF MillisGe(current_millis, s0.next_event)
              THEN [s0 EXCEPT
                      !.current_intensity = intensity,
                      !.next_event = current_millis
                          + random(rnd, CANDLE_MIN_INTERVAL, CANDLE_MAX_INTERVAL + 1)]
              ELSE s0
        subtle_variation == I16(random(rnd, -30, 31))
        t1 == constrain(s1.current_intensity + subtle_variation,
                        CANDLE_MIN_INTENSITY, CANDLE_MAX_INTENSITY)
        current_brightness == W.leds[c].brightness
        intensity_diff == I16(t1 - current_brightness)
        target_intensity ==
            IF AbsInt(intensity_diff) > 200
            THEN IF intensity_diff > 0 THEN U16(current_brightness + 80)
                 ELSE U16(current_brightness - 80)
            ELSE IF AbsInt(intensity_diff) > 50
            THEN U16(current_brightness + CDiv(intensity_diff, 3))
            ELSE t1
        W1 == applyLedBrightness(WriteBrightness(W, c, target_intensity), c)
    IN IF MillisDiff(current_millis, state.last_update) < 25 THEN W
       ELSE Finish(W1, c, s1, current_millis)

\* a French crossing that keeps a faint glow when the cool-down is over
FrenchCrossingBrightness_residual_glow(current_phase, phase_time, rnd) ==
    IF current_phase = 1
    THEN IF phase_time < FRENCH_CROSSING_WARMUP_DURATION
         THEN FRENCH_CROSSING_WARMUP_MIN
              + Scale(FRENCH_CROSSING_MAX_INTENSITY - FRENCH_CROSSING_WARMUP_MIN,
                      FixedOne - ExpNeg(4 * Progress(phase_time,
                                                     FRENCH_CROSSING_WARMUP_DURATION)))
         ELSE constrain(FRENCH_CROSSING_MAX_INTENSITY + I16(random(rnd, -25, 26)),
                        FRENCH_CROSSING_MAX_INTENSITY - 50, FRENCH_CROSSING_MAX_INTENSITY)
    ELSE IF phase_time < FRENCH_CROSSING_COOLDOWN_DURATION
         THEN Scale(FRENCH_CROSSING_WARMUP_MIN,
                    ExpNeg(2 * Progress(phase_time, FRENCH_CROSSING_COOLDOWN_DURATION)))
         ELSE random(rnd, 5, 15)

\* target_brightness of ProgramManager::update_french_crossing_program, phase_time
\* milliseconds into the phase current_phase
FrenchCrossingBrightness(current_phase, phase_time, rnd) ==
    IF current_phase = 1
    THEN IF phase_time < FRENCH_CROSSING_WARMUP_DURATION
         THEN FRENCH_CROSSING_WARMUP_MIN
              + Scale(FRENCH_CROSSING_MAX_INTENSITY - FRENCH_CROSSING_WARMUP_MIN,
                      FixedOne - ExpNeg(4 * Progress(phase_time,
                                                     FRENCH_CROSSING_WARMUP_DURATION)))
         ELSE constrain(FRENCH_CROSSING_MAX_INTENSITY + I16(random(rnd, -25, 26)),
                        FRENCH_CROSSING_MAX_INTENSITY - 50, FRENCH_CROSSING_MAX_INTENSITY)
    ELSE IF phase_time < FRENCH_CROSSING_COOLDOWN_DURATION
         THEN Scale(FRENCH_CROSSING_WARMUP_MIN,
                    ExpNeg(2 * Progress(phase_time, FRENCH_CROSSING_COOLDOWN_DURATION)))
         ELSE 0

\* a French crossing that takes every tick for the start of a phase
update_french_crossing_program_reanchors(W, c, current_millis, rnd) ==
    LET state == StateOf(W, c)
        s0 == IF state.start_time = 0
              THEN [state EXCEPT !.start_time = current_millis,
                                 !.parameters.phase_start_time = current_millis,
                                 !.parameters.current_phase = 0]
              ELSE state
        cycle_time == MillisDiff(current_millis, s0.start_time)
                          % (FRENCH_CROSSING_ON_DURATION + FRENCH_CROSSING_OFF_DURATION)
        should_be_on == cycle_time < FRENCH_CROSSING_ON_DURATION
        stored_phase == U8(s0.parameters.current_phase)
        change == (should_be_on /\ stored_phase = 0) \/ (~should_be_on /\ stored_phase = 1)
        s1 == IF change \/ ~change
              THEN [s0 EXCEPT !.parameters.phase_start_time = current_millis,
                              !.parameters.current_phase = IF should_be_on THEN 1 ELSE 0]
              ELSE s0
        phase_start == s1.parameters.phase_start_time
        current_phase == U8(s1.parameters.current_phase)
        phase_time == MillisDiff(current_millis, phase_start)
        W1 == applyLedBrightness(
                  WriteBrightness(W, c, FrenchCrossingBrightness(current_phase, phase_time, rnd)),
                  c)
    IN IF MillisDiff(current_millis, state.last_update) < 10 THEN W
       ELSE Finish(W1, c, s1, current_millis)

\* ProgramManager::update_french_crossing_program
update_french_crossing_program(W, c, current_millis, rnd) ==
    LET state == StateOf(W, c)
        s0 == IF state.start_time = 0
              THEN [state EXCEPT !.start_time = current_millis,
                                 !.parameters.phase_start_time = current_millis,
                                 !.parameters.current_phase = 0]
              ELSE state
        cycle_time == MillisDiff(current_millis, s0.start_time)
                          % (FRENCH_CROSSING_ON_DURATION + FRENCH_CROSSING_OFF_DURATION)
        should_be_on == cycle_time < FRENCH_CROSSING_ON_DURATION
        stored_phase == U8(s0.parameters.current_phase)
        change == (should_be_on /\ stored_phase = 0) \/ (~should_be_on /\ stored_phase = 1)
        s1 == IF change
              THEN [s0 EXCEPT !.parameters.phase_start_time = current_millis,
                              !.parameters.current_phase = IF should_be_on THEN 1 ELSE 0]
              ELSE s0
        phase_start == s1.parameters.phase_start_time
        current_phase == U8(s1.parameters.current_phase)
        phase_time == MillisDiff(current_millis, phase_start)
        W1 == applyLedBrightness(
                  WriteBrightness(W, c, FrenchCrossingBrightness(current_phase, phase_time, rnd)),
                  c)
    IN IF MillisDiff(current_millis, state.last_update) < 10 THEN W
       ELSE Finish(W1, c, s1, current_millis)

\* the switch of ProgramManager::update for LED c
Dispatch(W, c, current_millis, rnd) ==
    LET t == W.leds[c].program_type
    IN IF t = PROGRAM_WELDING THEN update_welding_program(W, c, current_millis, rnd)
       ELSE IF t = PROGRAM_HEARTBEAT THEN update_heartbeat_program(W, c, current_millis, rnd)
       ELSE IF t = PROGRAM_BREATHING THEN update_breathing_program(W, c, current_millis, rnd)
       ELSE IF t = PROGRAM_SIMPLE_BLINK
       THEN update_simple_blink_program(W, c, current_millis, rnd)
       ELSE IF t = PROGRAM_TV_FLICKER THEN update_tv_flicker_program(W, c, current_millis, rnd)
       ELSE IF t = PROGRAM_FIREBOX_GLOW
       THEN update_firebox_glow_program(W, c, current_millis, rnd)
       ELSE IF t = PROGRAM_CANDLE_FLICKER
       THEN update_candle_flicker_program(W, c, current_millis, rnd)
       ELSE IF t = PROGRAM_FRENCH_CROSSING
       THEN update_french_crossing_program(W, c, current_millis, rnd)
       ELSE W

\* the condition of ProgramManager::update without the test of isEnabled()
IsDispatched_ignores_enabled(W, c) ==
    /\ W.leds[c].program_type # PROGRAM_NONE
    /\ W.leds[c].program_state # NULLPTR

\* the condition of ProgramManager::update under which LED c is dispatched
IsDispatched(W, c) ==
    /\ W.leds[c].enabled
    /\ W.leds[c].program_type # PROGRAM_NONE
    /\ W.leds[c].program_state # NULLPTR

\* an update that gives up the LEDs left once applyLedBrightness has failed
RECURSIVE UpdateFrom_stops_at_failure(_, _, _, _)
UpdateFrom_stops_at_failure(W, i, current_millis, rnd) ==
    IF i > Len(ChanSeq) \/ \E c \in Chan : W.hardware.failed[c] > 0 THEN W
    ELSE UpdateFrom_stops_at_failure(IF IsDispatched(W, ChanSeq[i])
                                     THEN Dispatch(W, ChanSeq[i], current_millis, rnd)
                                     ELSE W,
                                     i + 1, current_millis, rnd)

RECURSIVE UpdateFrom(_, _, _, _)
UpdateFrom(W, i, current_millis, rnd) ==
    IF i > Len(ChanSeq) THEN W
    ELSE UpdateFrom(IF IsDispatched(W, ChanSeq[i])
                    THEN Dispatch(W, ChanSeq[i], current_millis, rnd)
                    ELSE W,
                    i + 1, current_millis, rnd)

\* ProgramManager::update
update(W, current_millis, rnd) == UpdateFrom(W, 1, current_millis, rnd)

----------------------------------------------------------------------------
(* StorageManager: the LED configurations *)

\* no configuration stored under a LED's key
NoConfig == [saved |-> FALSE, enabled |-> FALSE, brightness |-> 0, program_type |-> 0]

\* StorageManager::save_led_config: the preferences after the call, and its result
save_led_config(W, P, module_index, led_index) ==
    IF ~getModule(module_index) \/ ~getLED(module_index, led_index)
    THEN [prefs |-> P, ret |-> FALSE]
    ELSE LET c == <<module_index, led_index>>
         IN [prefs |-> [P EXCEPT ![c] = [saved |-> TRUE,
                                         enabled |-> W.leds[c].enabled,
                                         brightness |-> W.leds[c].brightness,
                                         program_type |-> W.leds[c].program_type]],
             ret |-> TRUE]

\* load_led_config that stores the program type without assigning the program
load_led_config_without_assign(W, P, module_index, led_index, millis, rnd) ==
    IF ~getModule(module_index) \/ ~getLED(module_index, led_index)
    THEN [w |-> W, ret |-> FALSE]
    ELSE LET c == <<module_index, led_index>>
             doc == P[c]
             W1 == setEnabled(W, c, doc.enabled)
             W2 == WriteBrightness(W1, c, doc.brightness)
             W3 == setProgram(W2, c, doc.program_type, NULLPTR)
         IN IF ~doc.saved THEN [w |-> W, ret |-> FALSE]
            ELSE [w |-> applyLedBrightness(W3, c), ret |-> TRUE]

\* StorageManager::load_led_config
load_led_config(W, P, module_index, led_index, millis, rnd) ==
    IF ~getModule(module_index) \/ ~getLED(module_index, led_index)
    THEN [w |-> W, ret |-> FALSE]
    ELSE LET c == <<module_index, led_index>>
             doc == P[c]
             W1 == setEnabled(W, c, doc.enabled)
             W2 == WriteBrightness(W1, c, doc.brightness)
             W3 == setProgram(W2, c, doc.program_type, NULLPTR)
             W4 == assign_program(W3, module_index, led_index, doc.program_type,
                                  millis, rnd).w
         IN IF ~doc.saved THEN [w |-> W, ret |-> FALSE]
            ELSE [w |-> applyLedBrightness(W4, c), ret |-> TRUE]

\* the module and global namespaces before anything is saved: no module_count,
\* no module entry
NoModuleConfig == [module_count |-> 0, modules |-> [m \in Modules |-> FALSE]]

\* StorageManager::save_module_config
save_module_config(G, module_index) ==
    IF ~getModule(module_index) THEN [config |-> G, ret |-> FALSE]
    ELSE [config |-> [G EXCEPT !.modules[module_index] = TRUE], ret |-> TRUE]

\* StorageManager::load_module_config
load_module_config(G, module_index) ==
    getModule(module_index) /\ G.modules[module_index]

\* the loops of save_configuration from LED i of ChanSeq on
RECURSIVE SaveFrom(_, _, _, _)
SaveFrom(W, P, G, i) ==
    IF i > Len(ChanSeq) THEN [prefs |-> P, config |-> G, ret |-> TRUE]
    ELSE LET c == ChanSeq[i]
             m == IF c[2] = 0 THEN save_module_config(G, c[1])
                  ELSE [config |-> G, ret |-> TRUE]
             l == save_led_config(W, P, c[1], c[2])
             rest == SaveFrom(W, l.prefs, m.config, i + 1)
         IN [rest EXCEPT !.ret = m.ret /\ l.ret /\ rest.ret]

\* StorageManager::save_configuration
save_configuration(W, P, G) ==
    LET s == SaveFrom(W, P, G, 1)
    IN [s EXCEPT !.config.module_count = U8(ModuleCount)]

\* the loops of load_configuration from LED i of ChanSeq on
RECURSIVE LoadFrom(_, _, _, _, _, _)
LoadFrom(W, P, G, i, millis, rnd) ==
    IF i > Len(ChanSeq) THEN W
    ELSE LET c == ChanSeq[i]
         IN IF c[1] < G.module_count /\ load_module_config(G, c[1])
            THEN LoadFrom(load_led_config(W, P, c[1], c[2], millis, rnd).w, P, G, i + 1,
                          millis, rnd)
            ELSE LoadFrom(W, P, G, i + 1, millis, rnd)

\* StorageManager::load_configuration
load_configuration(W, P, G, millis, rnd) ==
    IF G.module_count = 0 THEN [w |-> W, ret |-> FALSE]
    ELSE [w |-> LoadFrom(W, P, G, 1, millis, rnd),
          ret |-> \E m \in Modules : m < G.module_count /\ load_module_config(G, m)]

----------------------------------------------------------------------------
(* WebServer::handleUpdateLed *)

\* a member of the request document that is null
JsonNull == -1

\* handleUpdateLed that starts the program of a LED again when it enables it
handleUpdateLed_restarts(W, module, led, enabled, program_type, brightness, millis, rnd) ==
    IF ~getModule(module) \/ ~getLED(module, led) THEN W
    ELSE LET c == <<module, led>>
             W1 == IF enabled # JsonNull
                   THEN IF enabled = 0
                        THEN applyLedBrightness(
                                 WriteBrightness(setEnabled(W, c, FALSE), c, 0), c)
                        ELSE applyLedBrightness(
                                 IF W.leds[c].program_state # NULLPTR
                                 THEN initialize_led_state(setEnabled(W, c, TRUE),
                                                           module, led, millis, rnd)
                                 ELSE setEnabled(W, c, TRUE), c)
                   ELSE W
             W2 == IF program_type # JsonNull
                   THEN IF program_type = PROGRAM_NONE
                        THEN unassign_program(W1, module, led).w
                        ELSE assign_program(W1, module, led, program_type, millis, rnd).w
                   ELSE W1
             W3 == IF brightness # JsonNull
                   THEN LET W2b == WriteBrightness(W2, c, brightness)
                        IN IF W2b.leds[c].program_type = PROGRAM_NONE /\ W2b.leds[c].enabled
                           THEN applyLedBrightness(W2b, c)
                           ELSE W2b
                   ELSE W2
         IN W3

\* WebServer::handleUpdateLed for the request {module, led, enabled, program_type,
\* brightness}; enabled is 0 or 1 when present
handleUpdateLed(W, module, led, enabled, program_type, brightness, millis, rnd) ==
    IF ~getModule(module) \/ ~getLED(module, led) THEN W
    ELSE LET c == <<module, led>>
             W1 == IF enabled # JsonNull
                   THEN IF enabled = 0
                        THEN applyLedBrightness(
                                 WriteBrightness(setEnabled(W, c, FALSE), c, 0), c)
                        ELSE applyLedBrightness(setEnabled(W, c, TRUE), c)
                   ELSE W
             W2 == IF program_type # JsonNull
                   THEN IF program_type = PROGRAM_NONE
                        THEN unassign_program(W1, module, led).w
                        ELSE assign_program(W1, module, led, program_type, millis, rnd).w
                   ELSE W1
             W3 == IF brightness # JsonNull
                   THEN LET W2b == WriteBrightness(W2, c, brightness)
                        IN IF W2b.leds[c].program_type = PROGRAM_NONE /\ W2b.leds[c].enabled
                           THEN applyLedBrightness(W2b, c)
                           ELSE W2b
                   ELSE W2
         IN W3

----------------------------------------------------------------------------
(* The state machine *)

\* (module, LED) pairs a caller may pass: every LED, a module index past the
\* end and a LED index past the end
Locations == Chan \cup {<<ModuleCount, 0>>, <<0, LedCount>>}

\* a program type outside the enumeration
PROGRAM_INVALID == PROGRAM_FRENCH_CROSSING + 1

\* program types a caller may pass: the enumeration and one value outside it
ProgramTypeIds == ProgramType \cup {PROGRAM_INVALID}

\* the program types the life cycle is exercised with: none, the one with its
\* own initial state, one with the default initial state, one outside the
\* enumeration
LifecycleTypes == {PROGRAM_NONE, PROGRAM_WELDING, PROGRAM_SIMPLE_BLINK, PROGRAM_INVALID}

\* a brightness a request may carry: one above the range
BrightnessIds == {5000}

\* milliseconds between two iterations of loop() that the model observes
CoarseSteps == {500}
FineSteps == {10, 250, 1000}
CycleSteps == {250, 1000}

\* the draws of an iteration of loop(): the ends of every range, every outcome
\* of a draw of random(0, 100)
TickRnd == [dial : {0, 2}, pct : Pcts]

\* the draws of an operation that only calls random(min, max)
DialRnd == [dial : Dials, pct : {50}]

\* the draws that make a difference when a state of kind program_type is initialized
InitRnd(program_type) ==
    IF program_type = PROGRAM_WELDING THEN DialRnd ELSE {[dial |-> 0, pct |-> 50]}

\* the world an operation starts from: no hardware write made yet
Start == [World EXCEPT !.applies = NoApplies, !.hardware.failed = NoApplies]

Commit(W) ==
    /\ leds' = W.leds
    /\ heap' = W.heap
    /\ live' = W.live
    /\ doubleFree' = W.doubleFree
    /\ applies' = W.applies
    /\ hardware' = W.hardware

\* the loop task inside ProgramManager::update: i is the place in ChanSeq of the
\* LED it visits (0 outside update), state the pointer the effect of that LED
\* fetched (NULLPTR before it did), program_type the case the switch took,
\* deleted whether the state was deleted since
Idle == [i |-> 0, program_type |-> PROGRAM_NONE, state |-> NULLPTR, deleted |-> FALSE]

\* what is kept of the last operation
Called(op, ret, old) == [op |-> op, ret |-> ret, old |-> old]

\* one more call of the API
Call == calls < MaxCalls /\ calls' = calls + 1

\* new ProgramState() succeeds when LED c gets a state it does not replace
HasRoomFor(W, c) == W.leds[c].program_state = NULLPTR => HeapSlots \ W.live # {}

\* entries the log buffer holds before it wraps (LogManager::initialize)
LogBufferSize == 2

\* the task that runs loop() and the task of the asynchronous web server
LogTasks == {"loopTask", "async_tcp"}

\* the LogManager after its constructor, the flag of SimpleMutex, and for every
\* task: the statement it is at inside the logger, whether the overload of
\* log() it called takes the lock, and the size test of addLogEntry as it read it
LogManager ==
    [log_buffer_      |-> <<>>,
     current_index_   |-> 0,
     buffer_full_     |-> FALSE,
     log_mutex_locked |-> FALSE,
     at               |-> [t \in LogTasks |-> "idle"],
     guarded          |-> [t \in LogTasks |-> FALSE],
     has_room         |-> [t \in LogTasks |-> FALSE],
     holders          |-> {},
     logs             |-> <<>>]

\* the tasks that are reading or writing log_buffer_, current_index_ or buffer_full_
InBuffer(L) == {t \in LogTasks : L.at[t] \in {"addLogEntry", "getLogs", "clearLogs"}}

\* the tasks that have passed SimpleMutex::lock and not yet called unlock
Holders(L) == L.holders

\* the outcomes of an access to the buffer: what the code computes, or, when
\* another task is inside the buffer too (a data race), also the buffer as it was
Raced(L, t, computed, untouched) ==
    IF InBuffer(L) \ {t} = {} THEN {computed} ELSE {computed, untouched}

\* LogManager::addLogEntry, after its size test: append, or overwrite the oldest
addLogEntry(L, t) ==
    IF L.has_room[t]
    THEN [L EXCEPT !.log_buffer_ = Append(@, t)]
    ELSE [L EXCEPT !.log_buffer_ = IF L.current_index_ < Len(@)
                                   THEN [@ EXCEPT ![L.current_index_ + 1] = t]
                                   ELSE @,
                   !.current_index_ = (@ + 1) % LogBufferSize,
                   !.buffer_full_ = TRUE]

\* LogManager::getLogs: the entries, oldest first; a slot past the end of the
\* vector, which only a racing clearLogs can leave, yields no entry
getLogs(L) ==
    IF ~L.buffer_full_
    THEN L.log_buffer_
    ELSE LET slots == [i \in 1..LogBufferSize |->
                          ((L.current_index_ + i - 1) % LogBufferSize) + 1]
             inside == SelectSeq(slots, LAMBDA j : j <= Len(L.log_buffer_))
         IN [i \in 1..Len(inside) |-> L.log_buffer_[inside[i]]]

\* LogManager::clearLogs, after log_buffer_.clear()
clearLogs(L) == [L EXCEPT !.current_index_ = 0, !.buffer_full_ = FALSE]

\* no program assigned, each LED enabled or not, as stored; the clock shows
\* millis and update ran last at updated
BootAt(millis, updated) ==
    /\ now = millis
    /\ lastProgramUpdate = updated
    /\ leds \in [Chan -> {[LED EXCEPT !.enabled = e] : e \in BOOLEAN}]
    /\ heap = [s \in HeapSlots |-> ProgramState]
    /\ live = {}
    /\ doubleFree = FALSE
    /\ applies = NoApplies
    /\ prefs = [c \in Chan |-> NoConfig]
    /\ config = NoModuleConfig
    /\ last = Called("boot", TRUE, PROGRAM_NONE)
    /\ calls = 0
    /\ ticks = 0
    /\ upd = Idle
    /\ stale = FALSE
    /\ logger = LogManager

\* after setup()
Boot == BootAt(SETUP_DELAY, 0)

Init == Boot /\ hardware = Hardware

\* a call of ProgramManager::assign_program
Assign(module_id, led_id, program_type, rnd) ==
    /\ Call
    /\ (getLED(module_id, led_id) /\ program_type # PROGRAM_NONE)
           => HasRoomFor(World, <<module_id, led_id>>)
    /\ LET r == assign_program(Start, module_id, led_id, program_type, now, rnd)
       IN /\ Commit(r.w)
          /\ last' = Called("assign", r.ret, get_program_type(World, module_id, led_id))
    /\ UNCHANGED <<now, lastProgramUpdate, prefs, config, ticks, upd, stale, logger>>

\* a call of ProgramManager::unassign_program
Unassign(module_id, led_id) ==
    /\ Call
    /\ LET r == unassign_program(Start, module_id, led_id)
       IN /\ Commit(r.w)
          /\ last' = Called("unassign", r.ret, get_program_type(World, module_id, led_id))
    /\ UNCHANGED <<now, lastProgramUpdate, prefs, config, ticks, upd, stale, logger>>

\* a call of ProgramManager::initialize
Initialize(rnd) ==
    /\ Call
    /\ Cardinality({c \in Chan : leds[c].program_type # PROGRAM_NONE
                                    /\ leds[c].program_state = NULLPTR})
           <= Cardinality(HeapSlots \ live)
    /\ LET r == initialize(Start, now, rnd)
       IN Commit(r.w) /\ last' = Called("initialize", r.ret, PROGRAM_NONE)
    /\ UNCHANGED <<now, lastProgramUpdate, prefs, config, ticks, upd, stale, logger>>

\* one iteration of loop(), dt milliseconds after the previous one
Loop(dt, rnd) ==
    /\ upd = Idle
    /\ ticks < MaxTicks
    /\ ticks' = ticks + 1
    /\ now' = now + dt
    /\ IF MillisDiff(now', lastProgramUpdate) >= 10
       THEN /\ Commit(update(Start, now', rnd))
            /\ lastProgramUpdate' = now'
            /\ last' = Called("update", TRUE, PROGRAM_NONE)
       ELSE /\ Commit(Start)
            /\ UNCHANGED lastProgramUpdate
            /\ last' = Called("loop", TRUE, PROGRAM_NONE)
    /\ UNCHANGED <<prefs, config, calls, upd, stale, logger>>

\* a request handled by WebServer::handleUpdateLed
HandleUpdateLed(module, led, enabled, program_type, brightness, rnd) ==
    /\ Call
    /\ (getLED(module, led) /\ program_type \notin {JsonNull, PROGRAM_NONE})
           => HasRoomFor(World, <<module, led>>)
    /\ Commit(handleUpdateLed(Start, module, led, enabled, program_type, brightness,
                              now, rnd))
    /\ last' = Called("http", getLED(module, led), get_program_type(World, module, led))
    /\ upd' = IF /\ upd.state # NULLPTR
                 /\ program_type # JsonNull
                 /\ getLED(module, led)
                 /\ leds[<<module, led>>].program_state = upd.state
              THEN [upd EXCEPT !.deleted = TRUE]
              ELSE upd
    /\ UNCHANGED <<now, lastProgramUpdate, prefs, config, ticks, stale, logger>>

\* a call of StorageManager::save_led_config
SaveLedConfig(module_index, led_index) ==
    /\ Call
    /\ LET r == save_led_config(World, prefs, module_index, led_index)
       IN prefs' = r.prefs /\ last' = Called("save", r.ret, PROGRAM_NONE)
    /\ Commit(Start)
    /\ UNCHANGED <<now, lastProgramUpdate, config, ticks, upd, stale, logger>>

\* a call of StorageManager::load_led_config
LoadLedConfig(module_index, led_index, rnd) ==
    /\ Call
    /\ (getLED(module_index, led_index)
            /\ prefs[<<module_index, led_index>>].saved
            /\ prefs[<<module_index, led_index>>].program_type # PROGRAM_NONE)
           => HeapSlots \ live # {}
    /\ LET r == load_led_config(Start, prefs, module_index, led_index, now, rnd)
       IN Commit(r.w) /\ last' = Called("load", r.ret, PROGRAM_NONE)
    /\ UNCHANGED <<now, lastProgramUpdate, prefs, config, ticks, upd, stale, logger>>

\* a call of StorageManager::save_configuration
SaveConfiguration ==
    /\ Call
    /\ LET r == save_configuration(World, prefs, config)
       IN /\ prefs' = r.prefs
          /\ config' = r.config
          /\ last' = Called("save_configuration", r.ret, PROGRAM_NONE)
    /\ Commit(Start)
    /\ UNCHANGED <<now, lastProgramUpdate, ticks, upd, stale, logger>>

\* load_configuration finds room for the states it creates
LoadHasRoom ==
    Cardinality({c \in Chan : prefs[c].saved /\ prefs[c].program_type # PROGRAM_NONE})
        <= Cardinality(HeapSlots \ live)

\* a call of StorageManager::load_configuration
LoadConfiguration(rnd) ==
    /\ Call
    /\ LoadHasRoom
    /\ LET r == load_configuration(Start, prefs, config, now, rnd)
       IN Commit(r.w) /\ last' = Called("load_configuration", r.ret, PROGRAM_NONE)
    /\ UNCHANGED <<now, lastProgramUpdate, prefs, config, ticks, upd, stale, logger>>

\* the loop task moves on to the next LED, or returns from update to loop()
Advance ==
    IF upd.i = Len(ChanSeq)
    THEN upd' = Idle /\ lastProgramUpdate' = now
    ELSE upd' = [Idle EXCEPT !.i = upd.i + 1] /\ UNCHANGED lastProgramUpdate

\* loop() calls ProgramManager::update, dt milliseconds after its last iteration
UpdateEnter(dt) ==
    /\ upd = Idle
    /\ ticks < MaxTicks
    /\ ticks' = ticks + 1
    /\ now' = now + dt
    /\ MillisDiff(now', lastProgramUpdate) >= 10
    /\ upd' = [Idle EXCEPT !.i = 1]
    /\ Commit(Start)
    /\ last' = Called("update", TRUE, PROGRAM_NONE)
    /\ UNCHANGED <<lastProgramUpdate, prefs, config, calls, stale, logger>>

\* update tests the LED it visits, takes the case of the switch and the effect
\* fetches the state pointer of the LED
UpdateVisit ==
    /\ upd.i # 0
    /\ upd.state = NULLPTR
    /\ LET c == ChanSeq[upd.i]
       IN IF IsDispatched(World, c)
          THEN /\ upd' = [upd EXCEPT !.program_type = leds[c].program_type,
                                     !.state = leds[c].program_state]
               /\ UNCHANGED lastProgramUpdate
          ELSE Advance
    /\ Commit(Start)
    /\ UNCHANGED <<now, prefs, config, last, calls, ticks, stale, logger>>

\* the effect runs on the state it fetched and writes the duty value of the LED
UpdateEffect(rnd) ==
    /\ upd.i # 0
    /\ upd.state # NULLPTR
    /\ LET c == ChanSeq[upd.i]
           fetched == setProgram(Start, c, upd.program_type, upd.state)
           ran == Dispatch(fetched, c, now, rnd)
       IN Commit(setProgram(ran, c, leds[c].program_type, leds[c].program_state))
    /\ stale' = (stale \/ upd.deleted)
    /\ Advance
    /\ UNCHANGED <<now, prefs, config, last, calls, ticks, logger>>

\* the requests that enable or disable a LED, or write its brightness
Requests == {<<0, JsonNull>>, <<1, JsonNull>>} \cup {<<JsonNull, b>> : b \in BrightnessIds}

\* the life cycle of the programs of every LED, the main loop and the web API
Next ==
    \/ \E c \in Locations, t \in LifecycleTypes : \E rnd \in InitRnd(t) :
           Assign(c[1], c[2], t, rnd)
    \/ \E c \in Locations : Unassign(c[1], c[2])
    \/ \E rnd \in DialRnd : Initialize(rnd)
    \/ \E dt \in CoarseSteps, rnd \in DialRnd : Loop(dt, rnd)
    \/ \E c \in Locations, q \in Requests :
           HandleUpdateLed(c[1], c[2], q[1], JsonNull, q[2], [dial |-> 0, pct |-> 50])

Spec == Init /\ [][Next]_vars

\* the same with the stored LED configurations
NextStorage ==
    \/ Next
    \/ \E c \in Locations : SaveLedConfig(c[1], c[2])
    \/ \E c \in Locations, rnd \in DialRnd : LoadLedConfig(c[1], c[2], rnd)

SpecStorage == Init /\ [][NextStorage]_vars

\* the LED the effects are followed on
EffectLed == <<0, 0>>

\* every effect on one LED from its assignment on, with loop() iterations 10 ms
\* apart
NextEffects ==
    \/ \E t \in ProgramTypeIds : \E rnd \in InitRnd(t) :
           /\ leds[EffectLed].program_type = PROGRAM_NONE
           /\ Assign(EffectLed[1], EffectLed[2], t, rnd)
    \/ \E dt \in FineSteps, rnd \in TickRnd : Loop(dt, rnd)
    \/ \E q \in Requests :
           HandleUpdateLed(EffectLed[1], EffectLed[2], q[1], JsonNull, q[2],
                           [dial |-> 0, pct |-> 50])

SpecEffects == Init /\ [][NextEffects]_vars

\* programs assigned over one another on one LED
NextReassign ==
    \/ \E t \in ProgramTypeIds \ {PROGRAM_NONE} : \E rnd \in InitRnd(t) :
           Assign(EffectLed[1], EffectLed[2], t, rnd)
    \/ \E dt \in CycleSteps, rnd \in DialRnd : Loop(dt, rnd)

SpecReassign == Init /\ [][NextReassign]_vars

----------------------------------------------------------------------------
(* Properties *)

\* the ProgramState pointers the LEDs hold
StatesHeld == {leds[c].program_state : c \in Chan} \ {NULLPTR}

\* C1: after any sequence of assignments, ticks of the effects, enable and
\* disable requests and brightness writes, the duty value of every LED is in
\* 0..4095, and a brightness write above the range is accepted and stores 4095.
C1_DutyInRange ==
    /\ \A c \in Chan : leds[c].brightness \in 0..MAX_BRIGHTNESS
    /\ \A c \in Chan, b \in BrightnessIds :
           handleUpdateLed(Start, c[1], c[2], JsonNull, JsonNull, b, now,
                           [dial |-> 0, pct |-> 50]).leds[c].brightness = MAX_BRIGHTNESS

\* a brightness above the range was written to a LED no effect has run on
C1_Witness ==
    /\ last.op = "http"
    /\ ticks = 0
    /\ leds[EffectLed].brightness = MAX_BRIGHTNESS

\* C2: after every call of assign_program, unassign_program, initialize, update
\* and load_led_config, a LED has the program type PROGRAM_NONE exactly when
\* its state pointer is nullptr.
C2_NoneIffNoState ==
    \A c \in Chan : (leds[c].program_type = PROGRAM_NONE) <=> (leds[c].program_state = NULLPTR)

\* a stored configuration with a program was loaded into a LED
C2_Witness ==
    /\ last.op = "load"
    /\ last.ret
    /\ \E c \in Chan : /\ prefs[c].saved
                       /\ prefs[c].program_type # PROGRAM_NONE
                       /\ leds[c].program_type = prefs[c].program_type
                       /\ leds[c].program_state # NULLPTR
                       /\ heap[leds[c].program_state].last_update = 0

\* C3: over assign_program, unassign_program, initialize and update calls every
\* allocated state is destroyed exactly once: no delete of a state that is not
\* allocated, no LED pointing to a destroyed state, no allocated state that no
\* LED points to, no state shared by two LEDs, and as many live states as LEDs
\* with a state.
C3_StatesOwnedOnce ==
    /\ ~doubleFree
    /\ StatesHeld \subseteq live
    /\ live \subseteq StatesHeld
    /\ \A c, d \in Chan :
           (c # d /\ leds[c].program_state # NULLPTR)
               => leds[c].program_state # leds[d].program_state
    /\ Cardinality(live) = Cardinality({c \in Chan : leds[c].program_state # NULLPTR})

\* a LED holds the second state allocated while the first one is destroyed
C3_Witness ==
    /\ \E c \in Chan : leds[c].program_state = 2
    /\ 1 \notin live

\* C4: for a (module, LED) pair that names no LED, assign_program (for any
\* program type, PROGRAM_NONE included) and unassign_program return false,
\* allocate nothing and change no LED.
C4_InvalidLocationRejected ==
    /\ \A loc \in Locations \ Chan :
           /\ \A t \in ProgramTypeIds, rnd \in DialRnd :
                  assign_program(Start, loc[1], loc[2], t, now, rnd)
                      = [w |-> Start, ret |-> FALSE]
           /\ unassign_program(Start, loc[1], loc[2]) = [w |-> Start, ret |-> FALSE]
    /\ (last.op \in {"assign", "unassign"} /\ ~last.ret) => applies = NoApplies

\* assign_program or unassign_program was called for a LED that does not exist
\* while a program is assigned
C4_Witness ==
    /\ last.op \in {"assign", "unassign"}
    /\ ~last.ret
    /\ live # {}

\* C5: for every LED and in every state, assign_program with PROGRAM_NONE and
\* unassign_program return the same result and leave the same state.
C5_AssignNoneIsUnassign ==
    \A c \in Chan, rnd \in DialRnd :
        assign_program(Start, c[1], c[2], PROGRAM_NONE, now, rnd)
            = unassign_program(Start, c[1], c[2])

\* assign_program was called with PROGRAM_NONE for a LED that had a program
C5_Witness ==
    /\ last.op = "assign"
    /\ last.ret
    /\ last.old # PROGRAM_NONE
    /\ live = {}

\* the program types a request assigns while the loop task is inside update
TaskTypes == {PROGRAM_NONE, PROGRAM_SIMPLE_BLINK, PROGRAM_HEARTBEAT}

\* the loop task and the task of the web server: handleUpdateLed runs between
\* any two steps of update
NextTasks ==
    \/ \E t \in TaskTypes :
           HandleUpdateLed(EffectLed[1], EffectLed[2], JsonNull, t, JsonNull,
                           [dial |-> 0, pct |-> 50])
    \/ \E dt \in CoarseSteps : UpdateEnter(dt)
    \/ UpdateVisit
    \/ \E rnd \in DialRnd : UpdateEffect(rnd)

SpecTasks == Init /\ [][NextTasks]_vars

\* C10: assign_program and unassign_program called from handleUpdateLed never
\* run while the loop task is inside ProgramManager::update, so that no effect
\* reads or writes a ProgramState that was deleted or replaced after the effect
\* fetched its pointer.
C10_NoEffectOnDeletedState == ~stale

\* the states a program of the given type may start in when assigned at millis
FreshStates(program_type, millis) ==
    IF program_type = PROGRAM_WELDING
    THEN {initialize_welding_state(ProgramState, millis, rnd) : rnd \in DialRnd}
    ELSE IF program_type \in ProgramType \ {PROGRAM_NONE}
    THEN {initialize_default_state(ProgramState, millis)}
    ELSE {ProgramState}

\* offsets below SIMPLE_BLINK_ON_DURATION at which an update is tried
OnOffsets == {50, 250, 999}

\* C6: assign_program with a program type other than PROGRAM_NONE leaves the
\* LED with the initial state of that type, whatever type and state the LED had
\* before, the same type included.  For PROGRAM_SIMPLE_BLINK on an enabled LED:
\* an update 1250 ms after the assignment writes 0, and after the program is
\* assigned again an update less than 1000 ms later writes 4095.
C6_AssignStartsAfresh ==
    /\ \A c \in Chan, t \in ProgramTypeIds \ {PROGRAM_NONE}, rnd \in DialRnd :
           LET r == assign_program(Start, c[1], c[2], t, now, rnd)
               p == r.w.leds[c].program_state
           IN /\ r.ret
              /\ r.w.leds[c].program_type = t
              /\ p # NULLPTR
              /\ r.w.heap[p] \in FreshStates(t, now)
    /\ (last.op = "assign" /\ last.ret)
           => heap[leds[EffectLed].program_state]
                  \in FreshStates(leds[EffectLed].program_type, now)
    /\ \A c \in Chan :
           leds[c].enabled
               => LET rnd == [dial |-> 0, pct |-> 50]
                      W == assign_program(Start, c[1], c[2], PROGRAM_SIMPLE_BLINK, now, rnd).w
                  IN /\ update(W, now + 1250, rnd).leds[c].brightness = 0
                     /\ \A d \in OnOffsets :
                            update(W, now + d, rnd).leds[c].brightness
                                = SIMPLE_BLINK_INTENSITY
    /\ (/\ last.op = "update"
        /\ leds[EffectLed].enabled
        /\ leds[EffectLed].program_type = PROGRAM_SIMPLE_BLINK)
           => LET offset == now - heap[leds[EffectLed].program_state].start_time
              IN /\ offset = 1250 => leds[EffectLed].brightness = 0
                 /\ offset < 1000 => leds[EffectLed].brightness = SIMPLE_BLINK_INTENSITY

\* PROGRAM_SIMPLE_BLINK was assigned again to an enabled LED 1250 ms after
\* boot, while the cycle it replaces is in its OFF half
C6_Witness ==
    /\ last.op = "assign"
    /\ last.ret
    /\ last.old = PROGRAM_SIMPLE_BLINK
    /\ calls = 2
    /\ ticks = 2
    /\ now = SETUP_DELAY + 1250
    /\ leds[EffectLed].enabled
    /\ leds[EffectLed].program_type = PROGRAM_SIMPLE_BLINK
    /\ leds[EffectLed].brightness = 0
    /\ heap[leds[EffectLed].program_state].start_time = now
    /\ heap[leds[EffectLed].program_state].last_update = 0

\* C7: after unassign_program on any LED, get_program_type returns
\* PROGRAM_NONE, is_program_assigned returns false and the LED holds no state;
\* and no update changes the duty value of a LED whose program type is
\* PROGRAM_NONE.
C7_UnassignedStaysQuiet ==
    /\ \A c \in Chan :
           LET r == unassign_program(Start, c[1], c[2])
           IN /\ r.ret
              /\ get_program_type(r.w, c[1], c[2]) = PROGRAM_NONE
              /\ ~is_program_assigned(r.w, c[1], c[2])
              /\ r.w.leds[c].program_state = NULLPTR
              /\ \A dt \in CoarseSteps, rnd \in DialRnd :
                     update(r.w, now + dt, rnd).leds[c].brightness = leds[c].brightness
    /\ \A c \in Chan :
           leds[c].program_type = PROGRAM_NONE
               => \A dt \in CoarseSteps, rnd \in DialRnd :
                      update(Start, now + dt, rnd).leds[c].brightness = leds[c].brightness

\* unassign_program was called for an enabled LED whose program had written a
\* duty value
C7_Witness ==
    /\ last.op = "unassign"
    /\ last.ret
    /\ last.old # PROGRAM_NONE
    /\ \E c \in Chan : /\ leds[c].program_type = PROGRAM_NONE
                       /\ leds[c].enabled
                       /\ leds[c].brightness \notin {0, MAX_BRIGHTNESS}

\* C8: update skips a LED that is disabled, or has the program type
\* PROGRAM_NONE, or has a program type and no state: its duty value, its state
\* and its program type are left as they were and applyLedBrightness is not
\* called for it.
C8_SkippedLedUntouched ==
    /\ \A c \in Chan :
           (\/ ~leds[c].enabled
            \/ leds[c].program_type = PROGRAM_NONE
            \/ leds[c].program_state = NULLPTR)
               => \A dt \in CoarseSteps, rnd \in DialRnd :
                      LET W == update(Start, now + dt, rnd)
                      IN /\ W.leds[c] = leds[c]
                         /\ leds[c].program_state # NULLPTR
                                => W.heap[leds[c].program_state]
                                       = heap[leds[c].program_state]
                         /\ W.applies[c] = 0
    /\ \A c \in Chan, t \in ProgramType \ {PROGRAM_NONE} :
           LET W0 == setEnabled(setProgram(Start, c, t, NULLPTR), c, TRUE)
           IN \A dt \in CoarseSteps, rnd \in DialRnd :
                  LET W == update(W0, now + dt, rnd)
                  IN W.leds[c] = W0.leds[c] /\ W.applies[c] = 0

\* an update ran the program of one LED and skipped a disabled LED that has a
\* program and a state
C8_Witness ==
    /\ last.op = "update"
    /\ \E c, d \in Chan :
           /\ ~leds[c].enabled
           /\ leds[c].program_state # NULLPTR
           /\ heap[leds[c].program_state].last_update = 0
           /\ leds[d].enabled
           /\ leds[d].program_state # NULLPTR
           /\ heap[leds[d].program_state].last_update = now
           /\ applies[c] = 0
           /\ applies[d] > 0

\* the effects that compute a phase from start_time
CycleBased == {PROGRAM_HEARTBEAT, PROGRAM_BREATHING, PROGRAM_SIMPLE_BLINK,
               PROGRAM_FRENCH_CROSSING}

\* n iterations of loop() 10 ms apart, the first one 10 ms after t
RECURSIVE RunTicks(_, _, _, _)
RunTicks(W, t, n, rnd) ==
    IF n = 0 THEN W
    ELSE LET W1 == update(W, t + 10, rnd)
         IN IF W1.doubleFree THEN W1 ELSE RunTicks(W1, t + 10, n - 1, rnd)

\* LED c disabled by a request now, left disabled for n - 1 iterations of
\* loop() and enabled by a request before the n-th
Reenabled(W, c, n, rnd) ==
    LET disabled == handleUpdateLed(W, c[1], c[2], 0, JsonNull, JsonNull, now, rnd)
        skipped == RunTicks(disabled, now, n - 1, rnd)
    IN handleUpdateLed(skipped, c[1], c[2], 1, JsonNull, JsonNull, now + 10 * (n - 1), rnd)

\* the fields of a ProgramState other than last_update
Progress_fields(state) ==
    [start_time |-> state.start_time, next_event |-> state.next_event,
     active |-> state.active, current_intensity |-> state.current_intensity,
     parameters |-> state.parameters]

\* numbers of iterations of loop() after which a disabled LED is enabled again
ResumeAfter == {5, 6, 50}

\* for the program types of kinds: a LED disabled and enabled again holds the
\* state it had when disabled and, at a time an uninterrupted run writes a duty
\* value, writes that value
ResumesAsUninterrupted(kinds) ==
    \A c \in Chan :
        (/\ leds[c].enabled
         /\ leds[c].program_type # PROGRAM_NONE
         /\ leds[c].program_state # NULLPTR)
            => \A n \in ResumeAfter :
                   LET rnd == [dial |-> 0, pct |-> 50]
                       p == leds[c].program_state
                       back == Reenabled(Start, c, n, rnd)
                       resumed == update(back, now + 10 * n, rnd)
                       straight == RunTicks(Start, now, n, rnd)
                   IN /\ back.leds[c].program_state = p
                      /\ Progress_fields(back.heap[p]) = Progress_fields(heap[p])
                      /\ (/\ leds[c].program_type \in kinds
                          /\ straight.heap[p].last_update = now + 10 * n)
                             => resumed.leds[c].brightness = straight.leds[c].brightness

\* C9: a LED running an effect that is disabled and later enabled again, with
\* no assignment in between, has at the first iteration of loop() after it is
\* enabled the start_time, next_event, active, current_intensity and parameters
\* it had when it was disabled, however many iterations passed; for heartbeat,
\* breathing, simple blink and French crossing the duty value written then is
\* the one an uninterrupted run writes at the same time.
C9_ResumeEqualsUninterrupted == ResumesAsUninterrupted(CycleBased)

\* C9 as amended: the state is kept for every effect, and the duty value written
\* after the LED is enabled again is the one of an uninterrupted run for
\* heartbeat, breathing and simple blink.
C9_ResumeKeepsState == ResumesAsUninterrupted(CycleBased \ {PROGRAM_FRENCH_CROSSING})

\* a LED running the heartbeat was disabled, skipped by an update and enabled
\* again
C9_Witness ==
    /\ last.op = "http"
    /\ leds[EffectLed].enabled
    /\ leds[EffectLed].program_type = PROGRAM_HEARTBEAT
    /\ leds[EffectLed].program_state # NULLPTR
    /\ leds[EffectLed].brightness = 0
    /\ heap[leds[EffectLed].program_state].last_update # 0
    /\ heap[leds[EffectLed].program_state].last_update < lastProgramUpdate

\* the LEDs that have a program
Assigned(W) == {c \in Chan : W.leds[c].program_type # PROGRAM_NONE}

\* ProgramManager::initialize finds room for the states it creates
InitializeHasRoom ==
    Cardinality({c \in Assigned(World) : leds[c].program_state = NULLPTR})
        <= Cardinality(HeapSlots \ live)

\* C11: after ProgramManager::initialize every LED with a program holds the state
\* assign_program creates for its program type at that time, the states held
\* before are deleted, program types are unchanged, LEDs without a program have
\* no state, no duty value or enabled flag changes, and the call returns true.
C11_InitializeRecreatesStates ==
    InitializeHasRoom =>
        \A rnd \in DialRnd :
            LET r == initialize(Start, now, rnd)
            IN /\ r.ret
               /\ ~r.w.doubleFree
               /\ r.w.live = (live \ StatesHeld)
                                 \cup {r.w.leds[c].program_state : c \in Assigned(World)}
               /\ Cardinality(r.w.live) = Cardinality(live \ StatesHeld)
                                              + Cardinality(Assigned(World))
               /\ r.w.applies = NoApplies
               /\ \A c \in Chan :
                      /\ r.w.leds[c].program_type = leds[c].program_type
                      /\ r.w.leds[c].brightness = leds[c].brightness
                      /\ r.w.leds[c].enabled = leds[c].enabled
                      /\ c \notin Assigned(World)
                             => r.w.leds[c].program_state = leds[c].program_state
                      /\ c \in Assigned(World)
                             => LET a == assign_program(Start, c[1], c[2],
                                                        leds[c].program_type, now, rnd).w
                                IN /\ r.w.leds[c].program_state # NULLPTR
                                   /\ r.w.heap[r.w.leds[c].program_state]
                                          = a.heap[a.leds[c].program_state]

\* initialize has run on a LED whose simple blink had been running: the duty
\* value is the one an update wrote, the state is the initial one
C11_Witness ==
    /\ last.op = "initialize"
    /\ last.ret
    /\ calls = 2
    /\ \E c \in Chan :
           /\ leds[c].program_type = PROGRAM_SIMPLE_BLINK
           /\ leds[c].brightness = SIMPLE_BLINK_INTENSITY
           /\ leds[c].program_state # NULLPTR
           /\ heap[leds[c].program_state].start_time = now
           /\ heap[leds[c].program_state].last_update = 0

\* configurations saved and loaded as a whole between assignments
NextConfig ==
    \/ \E c \in Locations, t \in LifecycleTypes : \E rnd \in InitRnd(t) :
           Assign(c[1], c[2], t, rnd)
    \/ \E c \in Locations : Unassign(c[1], c[2])
    \/ SaveConfiguration
    \/ \E rnd \in DialRnd : LoadConfiguration(rnd)

SpecConfig == Init /\ [][NextConfig]_vars

\* load_configuration on W with the stored P and G restores the program types
\* kinds, with a state exactly for the LEDs that have a program
Restores(W, P, G, kinds) ==
    \A rnd \in DialRnd :
        LET r == load_configuration(W, P, G, now, rnd)
        IN /\ r.ret
           /\ \A c \in Chan :
                  /\ r.w.leds[c].program_type = kinds[c]
                  /\ r.w.leds[c].program_state # NULLPTR <=> kinds[c] # PROGRAM_NONE

\* the program types the LEDs of W have
KindsOf(W) == [c \in Chan |-> W.leds[c].program_type]

\* C12: once save_configuration has succeeded, a load_configuration after any
\* assign_program and unassign_program calls gives every LED the program type
\* it had when saved, and a state exactly when that type is not PROGRAM_NONE.
C12_ConfigurationRoundTrip ==
    /\ LET s == save_configuration(World, prefs, config)
       IN /\ s.ret
          /\ \A c \in Chan : s.prefs[c].saved /\ s.prefs[c].program_type = leds[c].program_type
          /\ \A c2 \in Chan, t \in LifecycleTypes :
                 LET W1 == IF HasRoomFor(World, c2)
                           THEN assign_program(Start, c2[1], c2[2], t, now,
                                               [dial |-> 0, pct |-> 50]).w
                           ELSE Start
                 IN Cardinality(W1.live) + Cardinality(Assigned(World))
                        <= Cardinality(HeapSlots)
                            => Restores(W1, s.prefs, s.config, KindsOf(World))
    /\ (config.module_count > 0 /\ LoadHasRoom)
           => Restores(Start, prefs, config, [c \in Chan |-> prefs[c].program_type])

\* load_configuration has put back the PROGRAM_NONE a LED had when the
\* configuration was saved, over a program assigned since
C12_Witness ==
    /\ last.op = "load_configuration"
    /\ last.ret
    /\ live # {}
    /\ \E c \in Chan : prefs[c].saved /\ prefs[c].program_type = PROGRAM_NONE
                         /\ leds[c].program_type = PROGRAM_NONE
                         /\ leds[c].program_state = NULLPTR
    /\ \A c \in Chan : leds[c].program_state = NULLPTR

\* the LEDs that run program_type: enabled, with a state
Running(program_type) ==
    {c \in Chan : /\ leds[c].enabled
                  /\ leds[c].program_type = program_type
                  /\ leds[c].program_state # NULLPTR}

\* offsets in the heartbeat cycle: inside and at the ends of its four windows
HeartbeatOffsets == {0, 50, 99, 100, 150, 179, 180, 220, 239, 240, 500, 999}

\* cycles after the anchor at which the ticks are taken
CyclesAhead == {0, 1, 2}

\* C13: a tick of a heartbeat LED that is not throttled, c = (now - start_time)
\* mod 1000 into the cycle, writes the beat-1 intensity for c < 100, 0 for
\* 100 <= c < 180, 60% of the beat-1 intensity for 180 <= c < 240 and 0 from
\* 240 on.
C13_HeartbeatWindows ==
    \A c \in Running(PROGRAM_HEARTBEAT) :
        \A off \in HeartbeatOffsets, k \in CyclesAhead :
            LET state == heap[leds[c].program_state]
                t == state.start_time + 1000 * k + off
                W == update(Start, t, [dial |-> 0, pct |-> 50])
                duty == W.leds[c].brightness
            IN (state.start_time # 0 /\ t >= now /\ t - state.last_update >= 20)
                   => /\ W.applies[c] = 1
                      /\ off < 100 => duty = HEARTBEAT_INTENSITY
                      /\ (100 <= off /\ off < 180) => duty = 0
                      /\ (180 <= off /\ off < 240) => 10 * duty = 6 * HEARTBEAT_INTENSITY
                      /\ 240 <= off => duty = 0

\* a tick has written the beat-1 intensity 10 ms into the second cycle of a
\* heartbeat
C13_Witness ==
    /\ last.op = "update"
    /\ \E c \in Running(PROGRAM_HEARTBEAT) :
           /\ heap[leds[c].program_state].last_update = now
           /\ now - heap[leds[c].program_state].start_time = 1010
           /\ leds[c].brightness = HEARTBEAT_INTENSITY

\* offsets inside the beat-1 window of the heartbeat
BeatOneOffsets == {0, 10, 50, 99}

\* every tick of a heartbeat LED in the beat-1 window that is not throttled
\* writes duty
BeatOneWrites(duty) ==
    \A c \in Running(PROGRAM_HEARTBEAT) :
        \A off \in BeatOneOffsets, k \in CyclesAhead :
            LET state == heap[leds[c].program_state]
                t == state.start_time + HEARTBEAT_CYCLE_DURATION * k + off
                W == update(Start, t, [dial |-> 0, pct |-> 50])
            IN (state.start_time # 0 /\ t >= now /\ t - state.last_update >= 20)
                   => W.leds[c].brightness = duty

\* C14: in the beat-1 window of the heartbeat the duty value written is the
\* maximum duty value, 4095.
C14_BeatOneIsMaxDuty == BeatOneWrites(MAX_BRIGHTNESS)

\* C14 as amended: in the beat-1 window of the heartbeat the duty value written
\* is 3500, the intensity configured for the heartbeat, below the maximum 4095.
C14_BeatOneIsHeartbeatIntensity == BeatOneWrites(3500) /\ 3500 < MAX_BRIGHTNESS

\* the first tick of a heartbeat, 10 ms after its assignment, has written 3500
C14_Witness ==
    /\ last.op = "update"
    /\ \E c \in Running(PROGRAM_HEARTBEAT) :
           /\ heap[leds[c].program_state].last_update = now
           /\ now - heap[leds[c].program_state].start_time = 10
           /\ leds[c].brightness = 3500

\* offsets in the breathing cycle: every 100 ms and each side of the phase ends
BreathingOffsets ==
    {100 * i : i \in 0..39} \cup {1, 1499, 1501, 1999, 2001, 3499, 3501, 3999}

\* C15: a tick of a breathing LED that is not throttled, c = (now - start_time)
\* mod 4000 into the cycle, writes 0 at c = 0, 4095 for c in [1500, 2000), 0 for
\* c in [3500, 4000), a duty value that does not decrease with c over [0, 1500)
\* and does not increase with c over [2000, 3500), always within [0, 4095].
C15_BreathingPhases ==
    \A c \in Running(PROGRAM_BREATHING) :
        LET state == heap[leds[c].program_state]
            base == state.start_time
                        + BREATHING_CYCLE_DURATION
                              * (2 + (now - state.start_time) \div BREATHING_CYCLE_DURATION)
            written == [off \in BreathingOffsets |->
                           update(Start, base + off, [dial |-> 0, pct |-> 50])]
            duty == [off \in BreathingOffsets |-> written[off].leds[c].brightness]
        IN state.start_time # 0
               => /\ \A off \in BreathingOffsets :
                         /\ written[off].applies[c] = 1
                         /\ written[off].heap[leds[c].program_state].last_update = base + off
                         /\ duty[off] >= 0 /\ duty[off] <= 4095
                         /\ (1500 <= off /\ off < 2000) => duty[off] = 4095
                         /\ (3500 <= off /\ off < 4000) => duty[off] = 0
                  /\ duty[0] = 0
                  /\ \A a, b \in BreathingOffsets :
                         /\ (a <= b /\ b < 1500) => duty[a] <= duty[b]
                         /\ (2000 <= a /\ a <= b /\ b < 3500) => duty[a] >= duty[b]

\* a tick at the end of the inhale, 1500 ms after the assignment of the
\* breathing program, has written 4095
C15_Witness ==
    /\ last.op = "update"
    /\ \E c \in Running(PROGRAM_BREATHING) :
           /\ heap[leds[c].program_state].last_update = now
           /\ now - heap[leds[c].program_state].start_time = 1500
           /\ leds[c].brightness = 4095

\* delays from now of the next tick of a French crossing LED
CrossingDelays == {10, 20, 100, 149, 150, 151, 250, 499, 500, 501, 650, 700, 999, 1000, 1150}

\* C16: every duty value the French crossing writes is at most 4095, the hold
\* with jitter after the warm-up included; a tick that is not throttled, in the
\* OFF half of the cycle and at least 150 ms after the start of the phase,
\* writes 0.
C16_CrossingBounds ==
    \A c \in Running(PROGRAM_FRENCH_CROSSING) :
        \A d \in CrossingDelays, rnd \in DialRnd :
            LET p == leds[c].program_state
                t == now + d
                W == update(Start, t, rnd)
                cycle_time == (t - W.heap[p].start_time) % 1000
                phase_time == t - W.heap[p].parameters.phase_start_time
            IN heap[p].start_time # 0
                   => /\ W.applies[c] = 1
                      /\ W.heap[p].last_update = t
                      /\ W.leds[c].brightness <= 4095
                      /\ (cycle_time >= 500 /\ phase_time >= 150)
                             => W.leds[c].brightness = 0

\* a tick in the OFF half of a French crossing, 250 ms after the tick that saw
\* the half begin, has written 0
C16_Witness ==
    /\ last.op = "update"
    /\ \E c \in Running(PROGRAM_FRENCH_CROSSING) :
           LET state == heap[leds[c].program_state]
           IN /\ state.last_update = now
              /\ now - state.start_time = 750
              /\ state.parameters.current_phase = 0
              /\ state.parameters.phase_start_time = state.start_time + 500
              /\ leds[c].brightness = 0

\* the duty value and enabled flag of every LED of W
DutyAndEnabled(W) ==
    [c \in Chan |-> [brightness |-> W.leds[c].brightness, enabled |-> W.leds[c].enabled]]

\* C17: assign_program and unassign_program leave the duty value and the
\* enabled flag of every LED as they are and make no applyLedBrightness call;
\* unassign_program does not set the duty value to 0.
C17_AssignLeavesDuty ==
    \A c \in Locations :
        /\ LET r == unassign_program(Start, c[1], c[2])
           IN /\ DutyAndEnabled(r.w) = DutyAndEnabled(World)
              /\ r.w.applies = NoApplies
        /\ \A t \in ProgramTypeIds : \A rnd \in InitRnd(t) :
               (getLED(c[1], c[2]) /\ t # PROGRAM_NONE => HasRoomFor(World, c))
                   => LET r == assign_program(Start, c[1], c[2], t, now, rnd)
                      IN /\ DutyAndEnabled(r.w) = DutyAndEnabled(World)
                         /\ r.w.applies = NoApplies

\* welding has been assigned to a LED over a simple blink that had written
\* 4095: the duty value is still 4095
C17_Witness ==
    /\ last.op = "assign"
    /\ last.ret
    /\ last.old = PROGRAM_SIMPLE_BLINK
    /\ calls = 2
    /\ \E c \in Chan :
           /\ leds[c].program_type = PROGRAM_WELDING
           /\ leds[c].program_state # NULLPTR
           /\ heap[leds[c].program_state].last_update = 0
           /\ leds[c].brightness = SIMPLE_BLINK_INTENSITY

\* what the two queries return for every location a caller may pass
Queries(W) ==
    [c \in Locations |-> [assigned |-> is_program_assigned(W, c[1], c[2]),
                          type |-> get_program_type(W, c[1], c[2])]]

\* C18: is_program_assigned and get_program_type return false and PROGRAM_NONE
\* for a location that is not a LED; for a LED, is_program_assigned is true
\* exactly when get_program_type is not PROGRAM_NONE, and get_program_type is
\* the program type of the last successful assign_program or unassign_program
\* on that LED: such a call sets it, and no other call changes it.
C18_QueriesFollowAssignments ==
    /\ \A c \in Locations :
           /\ ~getLED(c[1], c[2])
                  => Queries(World)[c] = [assigned |-> FALSE, type |-> PROGRAM_NONE]
           /\ Queries(World)[c].assigned <=> Queries(World)[c].type # PROGRAM_NONE
           /\ LET r == unassign_program(Start, c[1], c[2])
              IN Queries(r.w) = IF r.ret
                                THEN [Queries(World) EXCEPT
                                          ![c] = [assigned |-> FALSE, type |-> PROGRAM_NONE]]
                                ELSE Queries(World)
           /\ \A t \in ProgramTypeIds :
                  (getLED(c[1], c[2]) /\ t # PROGRAM_NONE => HasRoomFor(World, c))
                      => LET r == assign_program(Start, c[1], c[2], t, now,
                                                 [dial |-> 0, pct |-> 50])
                         IN Queries(r.w) = IF r.ret
                                           THEN [Queries(World) EXCEPT
                                                     ![c] = [assigned |-> t # PROGRAM_NONE,
                                                             type |-> t]]
                                           ELSE Queries(World)
    /\ \A dt \in CoarseSteps, rnd \in DialRnd :
           Queries(update(Start, now + dt, rnd)) = Queries(World)
    /\ InitializeHasRoom
           => Queries(initialize(Start, now, [dial |-> 0, pct |-> 50]).w) = Queries(World)

\* a simple blink has been assigned to a LED over a welding program: the
\* queries report the simple blink
C18_Witness ==
    /\ last.op = "assign"
    /\ last.ret
    /\ last.old = PROGRAM_WELDING
    /\ calls = 2
    /\ \E c \in Chan :
           /\ get_program_type(World, c[1], c[2]) = PROGRAM_SIMPLE_BLINK
           /\ is_program_assigned(World, c[1], c[2])
           /\ \A d \in Chan \ {c} : ~is_program_assigned(World, d[1], d[2])

\* the names of the effects
ProgramNames ==
    [t \in ProgramType \ {PROGRAM_NONE} |->
        <<"Welding", "Heartbeat", "Breathing", "Simple Blink", "TV Flicker",
          "Firebox Glow", "Candle Flicker", "French Level Crossing">>[t]]

C20_InvalidTypeRejected ==
    \A c \in Chan :
        HasRoomFor(World, c)
            => LET r == assign_program(Start, c[1], c[2], PROGRAM_INVALID, now,
                                       [dial |-> 0, pct |-> 50])
               IN /\ ~r.ret
                  /\ r.w.leds[c].program_type = leds[c].program_type
                  /\ r.w.leds[c].program_state = leds[c].program_state
                  /\ r.w.live = live

\* the logger's steps leave the rest of the program alone
LoggerStep(L) ==
    /\ logger' = L
    /\ UNCHANGED <<now, lastProgramUpdate, leds, heap, live, doubleFree, applies, prefs,
                   config, last, calls, ticks, upd, stale, hardware>>

\* a task calls LogManager::log and enters addLogEntry, which tests the size of
\* the buffer; guarded: the overload is one of log.cpp, which takes the lock
\* for its output, and not the template of log.h, which takes none
LogEnter(t, guarded) ==
    /\ logger.at[t] = "idle"
    /\ LoggerStep([logger EXCEPT !.at[t] = "addLogEntry",
                                 !.guarded[t] = guarded,
                                 !.has_room[t] = Len(logger.log_buffer_) < LogBufferSize])

\* addLogEntry stores the entry; log() goes on to its output
LogStore(t) ==
    /\ logger.at[t] = "addLogEntry"
    /\ \E L \in Raced(logger, t, addLogEntry(logger, t), logger) :
           LoggerStep([L EXCEPT !.at[t] = IF logger.guarded[t] THEN "lock" ELSE "printf",
                                !.has_room[t] = FALSE])

\* SimpleMutex::lock leaves its loop: it read log_mutex_locked as false
LockTest(t) ==
    /\ logger.at[t] = "lock"
    /\ ~logger.log_mutex_locked
    /\ LoggerStep([logger EXCEPT !.at[t] = "locked"])

\* SimpleMutex::lock sets the flag and returns
LockSet(t) ==
    /\ logger.at[t] = "locked"
    /\ LoggerStep([logger EXCEPT !.at[t] = "printf",
                                 !.log_mutex_locked = TRUE,
                                 !.holders = @ \cup {t}])

\* log() writes to Serial and returns; SimpleLockGuard unlocks where it was taken
LogPrintf(t) ==
    /\ logger.at[t] = "printf"
    /\ LoggerStep([logger EXCEPT !.at[t] = "idle",
                                 !.guarded[t] = FALSE,
                                 !.log_mutex_locked = IF logger.guarded[t] THEN FALSE ELSE @,
                                 !.holders = @ \ {t}])

\* handleGetLogs calls LogManager::getLogs, which tests buffer_full_
GetLogsEnter(t) ==
    /\ logger.at[t] = "idle"
    /\ LoggerStep([logger EXCEPT !.at[t] = "getLogs"])

\* getLogs copies the entries and returns them
GetLogsReturn(t) ==
    /\ logger.at[t] = "getLogs"
    /\ \E copy \in Raced(logger, t, getLogs(logger), <<>>) :
           LoggerStep([logger EXCEPT !.at[t] = "idle", !.logs = copy])

\* handleClearLogs calls LogManager::clearLogs, which empties the vector
ClearLogsEnter(t) ==
    /\ logger.at[t] = "idle"
    /\ LoggerStep([logger EXCEPT !.at[t] = "clearLogs", !.log_buffer_ = <<>>])

\* clearLogs resets the write position and the wrap flag and returns
ClearLogsReturn(t) ==
    /\ logger.at[t] = "clearLogs"
    /\ LoggerStep([clearLogs(logger) EXCEPT !.at[t] = "idle"])

\* log() is called from both tasks; the requests for the logs only from the
\* task of the web server
NextLog ==
    \/ \E t \in LogTasks, guarded \in BOOLEAN : LogEnter(t, guarded)
    \/ \E t \in LogTasks : LogStore(t)
    \/ \E t \in LogTasks : LockTest(t)
    \/ \E t \in LogTasks : LockSet(t)
    \/ \E t \in LogTasks : LogPrintf(t)
    \/ GetLogsEnter("async_tcp")
    \/ GetLogsReturn("async_tcp")
    \/ ClearLogsEnter("async_tcp")
    \/ ClearLogsReturn("async_tcp")

SpecLog == Init /\ [][NextLog]_vars

\* C21: log storage and retrieval are thread-safe: when log(), getLogs() and
\* clearLogs() are called from different tasks, at most one task at a time is
\* inside an access to the log buffer (addLogEntry, getLogs, clearLogs), and
\* the SimpleMutex of the logger never has two holders at the same time.
C21_LoggerMutualExclusion ==
    /\ Cardinality(InBuffer(logger)) <= 1
    /\ Cardinality(Holders(logger)) <= 1

\* the least number of milliseconds between two ticks that an effect lets
\* advance its state, by program type
Throttle(program_type) ==
    CASE program_type = PROGRAM_WELDING -> 10
      [] program_type = PROGRAM_HEARTBEAT -> 20
      [] program_type = PROGRAM_BREATHING -> 20
      [] program_type = PROGRAM_SIMPLE_BLINK -> 50
      [] program_type = PROGRAM_TV_FLICKER -> 20
      [] program_type = PROGRAM_FIREBOX_GLOW -> 20
      [] program_type = PROGRAM_CANDLE_FLICKER -> 25
      [] program_type = PROGRAM_FRENCH_CROSSING -> 10

\* milliseconds since the last tick that advanced the state, around every throttle
SinceLastUpdate == {0, 9, 10, 19, 20, 24, 25, 49, 50}

\* the LEDs that update dispatches: enabled, with a program and its state
Dispatched == {c \in Chan : IsDispatched(World, c)}

\* the dispatched LEDs whose program is one of the eight effects
WithEffect ==
    {c \in Dispatched : leds[c].program_type \in PROGRAM_WELDING..PROGRAM_FRENCH_CROSSING}

\* C22: every effect has a throttle (Welding 10 ms, Heartbeat 20, Breathing 20,
\* SimpleBlink 50, TvFlicker 20, FireboxGlow 20, CandleFlicker 25,
\* FrenchCrossing 10): a tick less than that many milliseconds after the last
\* tick that advanced the state returns early and changes nothing, neither the
\* duty value, nor any field of the state, last_update included, nor the
\* hardware; so a tick that advances the state is at least that many
\* milliseconds after the one before.
C22_ThrottledTickChangesNothing ==
    \A c \in WithEffect : \A d \in SinceLastUpdate, rnd \in TickRnd :
        LET state == heap[leds[c].program_state]
            t == state.last_update + d
            W == Dispatch(Start, c, t, rnd)
        IN t >= now =>
               IF d < Throttle(leds[c].program_type)
               THEN W = Start
               ELSE W.heap[leds[c].program_state].last_update = t

\* update ran 10 ms after a tick that advanced a heartbeat, and was throttled
C22_Witness ==
    /\ last.op = "update"
    /\ \E c \in Running(PROGRAM_HEARTBEAT) :
           /\ now - heap[leds[c].program_state].last_update = 10
           /\ heap[leds[c].program_state].start_time # 0
           /\ applies[c] = 0

\* delays from now of the next tick of an effect
TickDelays == {0, 10, 20, 50, 250, 1000, 3000}

\* a tick at t of the effect of LED c finds nothing to do: a welding with no
\* flash active and none due, or a TV flicker before its next change
Quiet(c, t) ==
    LET state == heap[leds[c].program_state]
    IN \/ /\ leds[c].program_type = PROGRAM_WELDING
          /\ ~state.active
          /\ t < state.next_event
       \/ /\ leds[c].program_type = PROGRAM_TV_FLICKER
          /\ state.active
          /\ t < state.next_event

\* C23: for each of the eight effects, every tick that is not throttled on an
\* enabled LED with a program writes a computed duty value into the LED, calls
\* applyLedBrightness for it, and then sets last_update to the time of the tick.
C23_TickWritesAndApplies ==
    \A c \in WithEffect : \A dt \in TickDelays, rnd \in TickRnd :
        LET state == heap[leds[c].program_state]
            t == now + dt
            W == Dispatch(Start, c, t, rnd)
        IN t - state.last_update >= Throttle(leds[c].program_type)
               => /\ W.applies[c] >= 1
                  /\ W.heap[leds[c].program_state].last_update = t

\* C23 as the code has it: every tick that is not throttled sets last_update
\* to the time of the tick; before that it writes a duty value and calls
\* applyLedBrightness, except a welding tick with no flash active or due and a
\* TV flicker tick before its next change, which leave the duty value and the
\* hardware alone.
C23_TickStampsAndAppliesUnlessQuiet ==
    \A c \in WithEffect : \A dt \in TickDelays, rnd \in TickRnd :
        LET state == heap[leds[c].program_state]
            t == now + dt
            W == Dispatch(Start, c, t, rnd)
        IN t - state.last_update >= Throttle(leds[c].program_type)
               => /\ W.heap[leds[c].program_state].last_update = t
                  /\ IF Quiet(c, t)
                     THEN W.applies[c] = 0 /\ W.leds[c] = leds[c]
                     ELSE W.applies[c] >= 1 /\ W.leds[c].brightness \in 0..MAX_BRIGHTNESS

\* update ran a welding tick between two flashes, and a tick of another effect
\* wrote a duty value
C23_Witness ==
    /\ last.op = "update"
    /\ \E c \in Running(PROGRAM_WELDING) :
           /\ heap[leds[c].program_state].last_update = now
           /\ ~heap[leds[c].program_state].active
           /\ applies[c] = 0

\* C24: within one call of update, applyLedBrightness is called at most once
\* for any one LED, and exactly once for a LED whose effect wrote a new duty
\* value in that tick, for every effect and every phase of it.
C24_ApplyAtMostOncePerTick ==
    \A dt \in TickDelays, rnd \in TickRnd :
        LET W == update(Start, now + dt, rnd)
        IN \A c \in Chan :
               /\ W.applies[c] <= 1
               /\ (W.leds[c].brightness # leds[c].brightness => W.applies[c] = 1)

\* after setup() when the driver of a module may have failed to initialize:
\* the module stays in the list with initialized_ false
InitHardware ==
    /\ Boot
    /\ hardware \in {[Hardware EXCEPT !.initialized = f] : f \in [Modules -> BOOLEAN]}

\* the program types assigned where the hardware may fail
HardwareTypes == {PROGRAM_WELDING, PROGRAM_SIMPLE_BLINK}

\* programs assigned to and taken from every LED, and loop() iterations, on
\* hardware that may not be initialized
NextHardware ==
    \/ \E c \in Chan, t \in HardwareTypes : \E rnd \in InitRnd(t) :
           Assign(c[1], c[2], t, rnd)
    \/ \E c \in Chan : Unassign(c[1], c[2])
    \/ \E dt \in CycleSteps, rnd \in DialRnd : Loop(dt, rnd)

SpecHardware == InitHardware /\ [][NextHardware]_vars

\* the LEDs update dispatches from place i of ChanSeq on, in the order it does
RECURSIVE DispatchedFrom(_, _, _, _)
DispatchedFrom(W, i, current_millis, rnd) ==
    IF i > Len(ChanSeq) THEN <<>>
    ELSE IF IsDispatched(W, ChanSeq[i])
    THEN <<ChanSeq[i]>> \o DispatchedFrom(Dispatch(W, ChanSeq[i], current_millis, rnd),
                                          i + 1, current_millis, rnd)
    ELSE DispatchedFrom(W, i + 1, current_millis, rnd)

Own(W, c) ==
    [led |-> W.leds[c],
     state |-> IF W.leds[c].program_state # NULLPTR
               THEN W.heap[W.leds[c].program_state]
               ELSE ProgramState,
     applies |-> W.applies[c],
     failed |-> W.hardware.failed[c]]

\* the worlds after one operation on LED c: a tick of its effect, an
\* assignment, or unassign_program
After(c) ==
    (IF IsDispatched(World, c)
     THEN {Dispatch(Start, c, now + dt, rnd) : dt \in CycleSteps, rnd \in DialRnd}
     ELSE {})
    \cup (IF HasRoomFor(World, c)
          THEN {assign_program(Start, c[1], c[2], t, now, rnd).w :
                    t \in {PROGRAM_WELDING, PROGRAM_SIMPLE_BLINK}, rnd \in DialRnd}
          ELSE {})
    \cup {unassign_program(Start, c[1], c[2]).w}

\* C26: the LEDs are independent: a tick of an effect, an assignment or an
\* unassignment on one LED changes no field (duty value, enabled, program
\* type, state) of any other LED; and, for the same random values, what a tick
\* writes to a LED does not depend on the programs assigned to or taken from
\* the other LEDs.
C26_LedsAreIndependent ==
    \A c \in Chan : \A d \in Chan \ {c} :
        /\ \A W \in After(c) : Own(W, d) = Own(Start, d)
        /\ IsDispatched(World, c)
               => \A W \in After(d) : \A dt \in CycleSteps, rnd \in DialRnd :
                      Own(Dispatch(W, c, now + dt, rnd), c)
                          = Own(Dispatch(Start, c, now + dt, rnd), c)

\* a program was assigned to a LED while the other LED runs a blink that has
\* ticked already
C26_Witness ==
    /\ last.op = "assign"
    /\ last.ret
    /\ \E c \in Running(PROGRAM_SIMPLE_BLINK) : \E d \in Running(PROGRAM_WELDING) :
           /\ heap[leds[c].program_state].last_update # 0
           /\ heap[leds[d].program_state].last_update = 0

\* C27: in the hold phase of a welding flash (less than 70 % of the flash
\* duration elapsed) the duty value written is the peak p of the flash plus a
\* jitter in -200..200, clamped to 0..4095, for a negative jitter as for a
\* positive one, so that it never exceeds p + 200.
C27_WeldingHoldJitter ==
    \A c \in Running(PROGRAM_WELDING) : \A dt \in TickDelays, rnd \in TickRnd :
        LET t == now + dt
            W == Dispatch(Start, c, t, rnd)
            state == W.heap[leds[c].program_state]
            p == state.current_intensity
            jitter == random(rnd, -200, 201)
            hold == /\ W.applies[c] >= 1
                    /\ state.active
                    /\ 10 * (t - state.start_time)
                           < 7 * ((WELDING_MIN_DURATION + WELDING_MAX_DURATION) \div 2)
        IN hold => /\ jitter \in -200..200
                   /\ W.leds[c].brightness = constrain(p + jitter, 0, MAX_BRIGHTNESS)
                   /\ W.leds[c].brightness <= p + 200

\* delays from now of the next tick of a welding LED, through the hold, the
\* fade and the end of a flash
WeldingDelays == {0, 5, 10, 20, 30, 40, 50, 55, 60, 250, 1000}

\* C28: a welding flash starts (active goes from false to true) only on a tick
\* that is not throttled, with active false and now >= next_event; while a
\* flash is active no new flash starts and its peak, its start time and
\* next_event do not change; during the fade the duty value never exceeds the
\* peak; the flash ends on the first tick not throttled at which the elapsed
\* time has reached the flash duration of 55 ms, which sets active to false
\* and writes the duty value 0; and an idle tick leaves the duty value as it is.
C28_WeldingEventOrder ==
    \A c \in Running(PROGRAM_WELDING) : \A dt \in WeldingDelays, rnd \in TickRnd :
        LET t == now + dt
            old == heap[leds[c].program_state]
            W == Dispatch(Start, c, t, rnd)
            new == W.heap[leds[c].program_state]
            throttled == t - old.last_update < 10
            due == ~old.active /\ t >= old.next_event
            elapsed == t - old.start_time
        IN /\ (~old.active /\ new.active) <=> (~throttled /\ due)
           /\ (~throttled /\ due) => new.start_time = t
           /\ old.active
                  => /\ new.current_intensity = old.current_intensity
                     /\ new.start_time = old.start_time
                     /\ new.next_event = old.next_event
                     /\ new.active <=> (throttled \/ elapsed < 55)
                     /\ ~new.active => W.leds[c].brightness = 0 /\ W.applies[c] = 1
                     /\ (~throttled /\ 10 * elapsed >= 385 /\ elapsed < 55)
                            => /\ W.applies[c] = 1
                               /\ W.leds[c].brightness <= old.current_intensity
           /\ (~old.active /\ ~due)
                  => /\ ~new.active
                     /\ W.leds[c] = leds[c]
                     /\ W.applies[c] = 0

\* update ended a welding flash: the LED is idle again with the duty value 0
C28_Witness ==
    /\ last.op = "update"
    /\ \E c \in Running(PROGRAM_WELDING) :
           /\ ~heap[leds[c].program_state].active
           /\ heap[leds[c].program_state].start_time # 0
           /\ heap[leds[c].program_state].last_update = now
           /\ leds[c].brightness = 0
           /\ applies[c] = 1

\* milliseconds after the assignment of a welding at which update runs twice,
\* before the first flash can be due
WarmUpTicks == {<<0, 10>>, <<10, 500>>, <<990, 999>>}

\* C29: the delay of the first welding flash is drawn at the assignment, not
\* at the first tick: assign_program with PROGRAM_WELDING at time T sets
\* next_event to T + d with d drawn once in 1000..2999 and active to false,
\* and no tick of update before T + 1000 starts a flash, changes next_event or
\* writes the duty value of the LED.
C29_WeldingWarmUpAtAssignment ==
    \A c \in Chan : \A rnd \in DialRnd :
        HasRoomFor(World, c) =>
            LET A == assign_program(Start, c[1], c[2], PROGRAM_WELDING, now, rnd).w
                state == A.leds[c].program_state
                drawn == A.heap[state].next_event - now
            IN /\ drawn \in 1000..2999
               /\ drawn = random(rnd, 1000, 3000)
               /\ ~A.heap[state].active
               /\ \A d \in WarmUpTicks, r \in DialRnd :
                      LET U1 == update(A, now + d[1], r)
                          U2 == update(U1, now + d[2], r)
                      IN /\ U1.heap[state].next_event = now + drawn
                         /\ U2.heap[state].next_event = now + drawn
                         /\ ~U1.heap[state].active /\ ~U2.heap[state].active
                         /\ U1.leds[c] = A.leds[c] /\ U2.leds[c] = A.leds[c]
                         /\ U2.applies[c] = 0
               /\ leds[c].enabled
                      => update(A, now + drawn, rnd).heap[state].active

\* update ran on an enabled LED less than a second after a welding was
\* assigned to it
C29_Witness ==
    /\ last.op = "update"
    /\ \E c \in Running(PROGRAM_WELDING) :
           /\ heap[leds[c].program_state].last_update = now
           /\ heap[leds[c].program_state].next_event - now \in 750..2749
           /\ heap[leds[c].program_state].start_time = 0
           /\ ~heap[leds[c].program_state].active
           /\ applies[c] = 0

\* C30: the OFF half of the French crossing is not a step: a tick that is not
\* throttled less than 150 ms after the OFF phase began writes the lit
\* intensity times e^(-2 * progress), a duty value that is positive and falls
\* through the cool-down, and 0 is written only once the 150 ms have passed.
C30_CrossingCoolDown ==
    \A c \in Running(PROGRAM_FRENCH_CROSSING) :
        \A d \in CrossingDelays, rnd \in DialRnd :
            LET p == leds[c].program_state
                t == now + d
                W == update(Start, t, rnd)
                phase_time == t - W.heap[p].parameters.phase_start_time
            IN (heap[p].start_time # 0 /\ W.heap[p].parameters.current_phase = 0)
                   => IF phase_time < FRENCH_CROSSING_COOLDOWN_DURATION
                      THEN /\ W.leds[c].brightness > 0
                           /\ W.leds[c].brightness
                                  = Scale(FRENCH_CROSSING_MAX_INTENSITY,
                                          ExpNeg(2 * Progress(phase_time,
                                                     FRENCH_CROSSING_COOLDOWN_DURATION)))
                      ELSE W.leds[c].brightness = 0

\* 'should be on' of the French crossing at time t for a cycle begun at start_time
ShouldBeOn(t, start_time) == IF (t - start_time) % 1000 < 500 THEN 1 ELSE 0

\* C31: the French crossing detects the edges of its phases: after every tick
\* that is not throttled the stored phase is 'should be on' (1 exactly when
\* (now - start_time) mod 1000 < 500), and the stored start of the phase is
\* changed only by a tick that found the stored phase different from 'should
\* be on', which sets it to now; so the ticks of one half of the cycle see one
\* start of the phase, the first tick after the assignment included.
C31_CrossingEdgeDetection ==
    \A c \in Running(PROGRAM_FRENCH_CROSSING) :
        \A d \in CrossingDelays, rnd \in DialRnd :
            LET p == leds[c].program_state
                old == heap[p]
                t == now + d
                W == Dispatch(Start, c, t, rnd)
                new == W.heap[p]
                again == Dispatch(W, c, t + 20, rnd).heap[p]
                edge == old.start_time = 0
                            \/ old.parameters.current_phase # ShouldBeOn(t, old.start_time)
            IN /\ old.last_update # 0
                      => old.parameters.current_phase
                             = ShouldBeOn(old.last_update, old.start_time)
               /\ t - old.last_update >= 10
                      => /\ new.start_time = IF old.start_time = 0 THEN t ELSE old.start_time
                         /\ new.parameters.current_phase = ShouldBeOn(t, new.start_time)
                         /\ new.parameters.phase_start_time
                                = IF edge THEN t ELSE old.parameters.phase_start_time
                         /\ (t + 20 - new.start_time) \div 500 = (t - new.start_time) \div 500
                                => /\ again.last_update = t + 20
                                   /\ again.parameters.phase_start_time
                                          = new.parameters.phase_start_time

\* a second tick in the ON half of a French crossing, 250 ms after the first
\* tick of the LED, which came 10 ms after the assignment: the phase still
\* starts at the first tick
C31_Witness ==
    /\ last.op = "update"
    /\ \E c \in Running(PROGRAM_FRENCH_CROSSING) :
           LET state == heap[leds[c].program_state]
           IN /\ state.last_update = now
              /\ now - state.start_time = 260
              /\ state.parameters.current_phase = 1
              /\ state.parameters.phase_start_time = state.start_time + 10

\* the duration of a firebox sub-effect (ember pop, flame surge, wind gust)
FireboxDuration(current_effect) ==
    CASE current_effect = 1 -> FIREBOX_EMBER_DURATION
      [] current_effect = 2 -> FIREBOX_SURGE_DURATION
      [] current_effect = 3 -> FIREBOX_WIND_DURATION
      [] OTHER -> 0

\* delays to the next firebox tick: throttled, inside and just past each duration
FireboxDelays == {10, 20, 60, 149, 150, 400, 799, 800, 1199, 1200}

\* C32: the stored firebox sub-effect is always 0 (none), 1 (ember pop),
\* 2 (flame surge) or 3 (wind gust); a tick changes it from 0 to a non-zero
\* type only when it was 0 at the start of the tick and now >= next_event,
\* from a non-zero type only to 0 and only when the sub-effect's duration
\* (150 / 800 / 1200 ms) has elapsed; it never goes from one non-zero type
\* to another, and no sub-effect starts in the tick in which one finishes.
C32_FireboxEffectsExclusive ==
    \A c \in Running(PROGRAM_FIREBOX_GLOW) :
        \A d \in FireboxDelays, rnd \in TickRnd :
            LET p == leds[c].program_state
                old == heap[p]
                t == now + d
                new == Dispatch(Start, c, t, rnd).heap[p]
                e0 == old.parameters.effect_type
                e1 == new.parameters.effect_type
                elapsed == t - old.parameters.effect_start_time
            IN /\ e0 \in 0..3
               /\ e1 \in 0..3
               /\ e0 = 0 /\ e1 # 0
                     => /\ t >= old.next_event
                        /\ new.parameters.effect_start_time = t
               /\ e0 # 0 /\ elapsed < FireboxDuration(e0)
                     => /\ e1 = e0
                        /\ new.parameters.effect_start_time = old.parameters.effect_start_time
               /\ e0 # 0 /\ elapsed >= FireboxDuration(e0) /\ t - old.last_update >= 20
                     => /\ e1 = 0
                        /\ new.next_event = old.next_event
               /\ e0 # 0 => e1 \in {0, e0}

C32_Witness ==
    /\ last.op = "update"
    /\ \E c \in Running(PROGRAM_FIREBOX_GLOW) :
           LET state == heap[leds[c].program_state]
           IN /\ state.last_update = now
              /\ state.parameters.effect_type = 0
              /\ state.parameters.effect_start_time # 0
              /\ now - state.parameters.effect_start_time >= FIREBOX_EMBER_DURATION
              /\ now >= state.next_event

\* duties a channel may show before a firebox tick, and delays to that tick
FireboxDuties == {0, 1200, 1900, 2000, 2500, 4095}
FireboxTicks == {20, 300}

\* the duty a firebox tick at t writes over previous_duty, less previous_duty
FireboxJump(c, previous_duty, t, rnd) ==
    Dispatch(WriteBrightness(Start, c, previous_duty), c, t, rnd).leds[c].brightness
        - previous_duty

\* C33 (as stated): on every non-throttled firebox tick on which no ember pop
\* is active, the duty written differs from the previous duty by no more
\* than the fixed step 150, for every previous duty and every draw.
C33_FireboxRateLimit ==
    \A c \in Running(PROGRAM_FIREBOX_GLOW) :
        \A d \in FireboxTicks, previous_duty \in FireboxDuties, rnd \in Rnd :
            heap[leds[c].program_state].parameters.effect_type # 1
                => AbsInt(FireboxJump(c, previous_duty, now + d, rnd)) <= 150

\* C33 (amended): on every non-throttled firebox tick on which no ember pop
\* is active, the duty written differs from the previous duty by no more
\* than 300: only a target more than 300 away is approached by the fixed step 150.
C33_FireboxSmoothsLargeJumps ==
    \A c \in Running(PROGRAM_FIREBOX_GLOW) :
        \A d \in FireboxTicks, previous_duty \in FireboxDuties, rnd \in Rnd :
            heap[leds[c].program_state].parameters.effect_type # 1
                => AbsInt(FireboxJump(c, previous_duty, now + d, rnd)) <= 300

C33_Witness ==
    /\ last.op = "update"
    /\ \E c \in Running(PROGRAM_FIREBOX_GLOW) :
           /\ heap[leds[c].program_state].last_update = now
           /\ heap[leds[c].program_state].parameters.effect_type # 1
           /\ leds[c].brightness = MAX_BRIGHTNESS - 150

\* duties a channel may show before a candle tick, and delays to that tick
CandleDuties == {0, 1800, 2600, 2700, 2800, 3800, 4095}
CandleTicks == {25, 300}

\* C34: with d = target - previous duty on a non-throttled candle tick, the
\* duty written is previous +/- 80 towards the target when |d| > 200,
\* previous + d/3 (integer division) when 50 < |d| <= 200, and the target
\* when |d| <= 50; so the duty changes by at most 80 per tick, never moves
\* away from the target, never goes below 0, and stays in [1800, 3800] once
\* it is there.
C34_CandleSmoothing ==
    \A c \in Running(PROGRAM_CANDLE_FLICKER) :
        \A dt \in CandleTicks, previous \in CandleDuties, rnd \in Rnd :
            LET p == leds[c].program_state
                W == Dispatch(WriteBrightness(Start, c, previous), c, now + dt, rnd)
                target == constrain(W.heap[p].current_intensity + random(rnd, -30, 31),
                                    CANDLE_MIN_INTENSITY, CANDLE_MAX_INTENSITY)
                d == target - previous
                written == W.leds[c].brightness
            IN /\ W.heap[p].last_update = now + dt
               /\ written = IF AbsInt(d) > 200
                            THEN IF d > 0 THEN previous + 80 ELSE previous - 80
                            ELSE IF AbsInt(d) > 50
                            THEN IF d > 0 THEN previous + d \div 3
                                 ELSE previous - (-d) \div 3
                            ELSE target
               /\ AbsInt(written - previous) <= 80
               /\ AbsInt(target - written) <= AbsInt(d)
               /\ written >= 0
               /\ previous \in CANDLE_MIN_INTENSITY..CANDLE_MAX_INTENSITY
                      => written \in CANDLE_MIN_INTENSITY..CANDLE_MAX_INTENSITY

C34_Witness ==
    /\ last.op = "update"
    /\ \E c \in Running(PROGRAM_CANDLE_FLICKER) :
           /\ heap[leds[c].program_state].last_update = now
           /\ heap[leds[c].program_state].current_intensity >= CANDLE_MIN_INTENSITY
           /\ leds[c].brightness = 160

\* delays to the next TV flicker tick: throttled, before and after the event
TvDelays == {10, 20, 39, 40, 199, 200, 250}

\* C35: at each TV flicker event one draw r of 0..99 selects one outcome:
\* r < 15 a bright flash in [2000, 2500], 15 <= r < 25 a dim target in
\* [200, 299], r >= 25 a normal target in [600, 1000]; the duty written is
\* the target plus a micro-variation of [-50, 50] clamped to [200, 2500];
\* the next event is scheduled 40..200 ms after now; and a tick before
\* next_event does not modify the duty.
C35_TvFlickerEvent ==
    \A c \in Running(PROGRAM_TV_FLICKER) :
        \A d \in TvDelays, rnd \in Rnd :
            LET p == leds[c].program_state
                old == heap[p]
                t == now + d
                W == Dispatch(Start, c, t, rnd)
                new == W.heap[p]
                target == new.current_intensity
                written == W.leds[c].brightness
            IN /\ old.active
               /\ IF t - old.last_update >= 20 /\ t >= old.next_event
                  THEN /\ rnd.pct < 15 => target \in 2000..2500
                       /\ rnd.pct >= 15 /\ rnd.pct < 25 => target \in 200..299
                       /\ rnd.pct >= 25 => target \in 600..1000
                       /\ written \in 200..2500
                       /\ \E micro_variation \in {-50, 0, 50} :
                              written = constrain(target + micro_variation, 200, 2500)
                       /\ new.next_event - t \in 40..200
                       /\ W.applies[c] = 1
                  ELSE /\ written = leds[c].brightness
                       /\ target = old.current_intensity
                       /\ new.next_event = old.next_event
                       /\ W.applies[c] = 0

C35_Witness ==
    /\ last.op = "update"
    /\ \E c \in Running(PROGRAM_TV_FLICKER) :
           /\ heap[leds[c].program_state].last_update = now
           /\ heap[leds[c].program_state].next_event = now + 40
           /\ heap[leds[c].program_state].current_intensity = 2000
           /\ leds[c].brightness = 1950

\* the effects that repeat a cycle and draw nothing
CycleTypes == {PROGRAM_HEARTBEAT, PROGRAM_BREATHING, PROGRAM_SIMPLE_BLINK}

\* the duty of a cycle-based effect elapsed milliseconds after its start_time
CycleDuty(program_type, elapsed) ==
    CASE program_type = PROGRAM_HEARTBEAT
             -> HeartbeatBrightness(elapsed % HEARTBEAT_CYCLE_DURATION)
      [] program_type = PROGRAM_BREATHING
             -> BreathingBrightness(elapsed % BREATHING_CYCLE_DURATION)
      [] program_type = PROGRAM_SIMPLE_BLINK
             -> SimpleBlinkBrightness(elapsed % (SIMPLE_BLINK_ON_DURATION
                                                     + SIMPLE_BLINK_OFF_DURATION))

\* two schedules to the same instant: one tick after Between + Last
\* milliseconds, or a tick after Between milliseconds and one Last later
Between == {10, 20, 50, 333, 1500}
Last == {50, 120, 700, 2100}

\* C36: a tick of Heartbeat, Breathing or SimpleBlink recomputes the duty from
\* (now - start_time) mod period alone: two runs from the same state with
\* different tick schedules, previous duties and draws write the same duty
\* at an instant at which both advance, and update never changes a non-zero
\* start_time.
C36_CycleDutyIgnoresHistory ==
    \A type \in CycleTypes :
        \A c \in Running(type) :
            \A d1 \in Between, d2 \in Last, previous \in {0, MAX_BRIGHTNESS}, rnd \in TickRnd :
                LET p == leds[c].program_state
                    t == now + d1 + d2
                    one == Dispatch(Start, c, t, rnd)
                    between == Dispatch(WriteBrightness(Start, c, previous), c, now + d1,
                                        [dial |-> 1, pct |-> 50])
                    two == Dispatch(between, c, t, rnd)
                IN /\ heap[p].start_time # 0
                   /\ between.heap[p].start_time = heap[p].start_time
                   /\ one.heap[p].start_time = heap[p].start_time
                   /\ two.heap[p].start_time = heap[p].start_time
                   /\ two.heap[p].last_update = t
                   /\ one.heap[p].last_update = t
                          => /\ one.leds[c].brightness = two.leds[c].brightness
                             /\ one.leds[c].brightness = CycleDuty(type, t - heap[p].start_time)
                   /\ last.op = "update" /\ heap[p].last_update = now
                          => leds[c].brightness = CycleDuty(type, now - heap[p].start_time)

C36_Witness ==
    /\ last.op = "update"
    /\ ticks = MaxTicks
    /\ \E c \in Running(PROGRAM_BREATHING) :
           /\ heap[leds[c].program_state].last_update = now
           /\ now - heap[leds[c].program_state].start_time = 510
           /\ leds[c].brightness = BreathingBrightness(510)
           /\ leds[c].brightness \in 1..(MAX_BRIGHTNESS - 1)

\* the last millisecond at which the welding specification observes loop()
Horizon == 4600

\* milliseconds between two iterations of loop() of the welding specification
WeldingSteps == {50, 100}

\* an iteration of loop() dt milliseconds after the last one, up to horizon
LoopUntil(horizon, dt, rnd) ==
    /\ upd = Idle
    /\ now + dt <= horizon
    /\ now' = now + dt
    /\ IF MillisDiff(now', lastProgramUpdate) >= 10
       THEN /\ Commit(update(Start, now', rnd))
            /\ lastProgramUpdate' = now'
            /\ last' = Called("update", TRUE, PROGRAM_NONE)
       ELSE /\ Commit(Start)
            /\ UNCHANGED lastProgramUpdate
            /\ last' = Called("loop", TRUE, PROGRAM_NONE)
    /\ UNCHANGED <<prefs, config, calls, ticks, upd, stale, logger>>

\* loop() runs on after a welding is assigned to one LED
WeldingLoop == \E dt \in WeldingSteps, rnd \in TickRnd : LoopUntil(Horizon, dt, rnd)

NextWelding ==
    \/ \E rnd \in InitRnd(PROGRAM_WELDING) :
           /\ leds[EffectLed].program_type = PROGRAM_NONE
           /\ Assign(EffectLed[1], EffectLed[2], PROGRAM_WELDING, rnd)
    \/ /\ leds[EffectLed].program_type = PROGRAM_WELDING
       /\ WeldingLoop

\* the welding LED is the one LED that is enabled
InitWelding == Init /\ \A c \in Chan : leds[c].enabled <=> c = EffectLed

\* the Arduino core calls loop() again and again: the clock keeps advancing
\* and update keeps being called
SpecWelding == InitWelding /\ [][NextWelding]_vars /\ WF_vars(WeldingLoop)

\* the welding LED is idle with a flash due before the horizon, or in a flash
\* that is over before the horizon
WeldingIdle ==
    /\ now + 10 <= Horizon
    /\ \E c \in Running(PROGRAM_WELDING) :
           /\ ~heap[leds[c].program_state].active
           /\ heap[leds[c].program_state].next_event <= Horizon
WeldingFlash ==
    \E c \in Running(PROGRAM_WELDING) :
        /\ heap[leds[c].program_state].active
        /\ heap[leds[c].program_state].start_time + 60 <= Horizon
WeldingFlashing == \E c \in Running(PROGRAM_WELDING) : heap[leds[c].program_state].active
WeldingDark ==
    \E c \in Running(PROGRAM_WELDING) :
        ~heap[leds[c].program_state].active /\ leds[c].brightness = 0

\* C37: for an enabled LED with a welding, under a clock that increases and
\* ticks at least 10 ms apart that keep arriving, an idle welding eventually
\* starts a flash, at the assignment as after every flash, and a started
\* flash eventually ends with active false and the duty value 0: the effect
\* stays neither idle nor active for ever.
C37_WeldingLiveness ==
    /\ WeldingIdle ~> WeldingFlashing
    /\ WeldingFlash ~> WeldingDark

\* a flash that started after the first one ended
C37_Witness ==
    \E c \in Running(PROGRAM_WELDING) :
        /\ heap[leds[c].program_state].active
        /\ heap[leds[c].program_state].start_time > 4100

\* the effects that schedule their next event as now + gap
EventTypes == {PROGRAM_WELDING, PROGRAM_TV_FLICKER, PROGRAM_CANDLE_FLICKER}

\* milliseconds left before the counter of millis() wraps, 49.7 days after the
\* start, when the wraparound specification begins
WrapLead == 250

\* milliseconds between two iterations of loop() around the wrap, and delays
\* to the next tick
WrapSteps == {10, 100, 250}
WrapDelays == {10, 30, 100, 300}

InitWrap == BootAt(-WrapLead, -WrapLead) /\ hardware = Hardware

\* an event-driven effect assigned to one LED shortly before the counter wraps
NextWrap ==
    \/ \E t \in EventTypes : \E rnd \in InitRnd(t) :
           /\ leds[EffectLed].program_type = PROGRAM_NONE
           /\ Assign(EffectLed[1], EffectLed[2], t, rnd)
    \/ \E dt \in WrapSteps, rnd \in TickRnd : Loop(dt, rnd)

SpecWrap == InitWrap /\ [][NextWrap]_vars

\* C38: the events of Welding, TvFlicker and CandleFlicker survive the wrap of
\* the 32-bit counter: with next_event scheduled as now + gap, a tick that
\* is not throttled fires the event if and only if it is at or after the
\* scheduled instant (and, for a welding, no flash is active), also when the
\* counter wraps between the scheduling and the event: the event neither
\* fires early nor stalls.
C38_EventsSurviveWraparound ==
    \A type \in EventTypes :
        \A c \in Running(type) :
            \A d \in WrapDelays, rnd \in TickRnd :
                LET p == leds[c].program_state
                    old == heap[p]
                    t == now + d
                    new == Dispatch(Start, c, t, rnd).heap[p]
                    scheduled == type = PROGRAM_WELDING \/ old.last_update # 0
                    due == t - old.next_event >= 0
                    idle == type = PROGRAM_WELDING => ~old.active
                    fired == IF type = PROGRAM_WELDING THEN ~old.active /\ new.active
                             ELSE new.next_event # old.next_event
                IN scheduled /\ MillisDiff(t, old.last_update) >= Throttle(type)
                       => (fired <=> (idle /\ due))

\* LED::reset
reset(W, c) ==
    [W EXCEPT !.leds[c].brightness = 0, !.leds[c].enabled = FALSE,
              !.leds[c].program_type = PROGRAM_NONE, !.leds[c].program_state = NULLPTR]

\* LED::operator= with the LED other as its argument
copy_assign(W, c, other) ==
    IF c = other THEN W
    ELSE [W EXCEPT !.leds[c].brightness = W.leds[other].brightness,
                   !.leds[c].enabled = W.leds[other].enabled,
                   !.leds[c].program_type = W.leds[other].program_type,
                   !.leds[c].program_state = NULLPTR]

\* PCA9685Module::setupDefaultLeds, from LED led_index on
RECURSIVE SetupDefaultLedsFrom(_, _, _)
SetupDefaultLedsFrom(W, module_index, led_index) ==
    IF led_index >= LedCount THEN W
    ELSE LET c == <<module_index, led_index>>
             W1 == setEnabled(WriteBrightness(W, c, 0), c, FALSE)
             W2 == setProgram(W1, c, PROGRAM_NONE, NULLPTR)
         IN SetupDefaultLedsFrom(applyLedBrightness(W2, c), module_index, led_index + 1)

\* PCA9685Module::setupDefaultLeds
setupDefaultLeds(W, module_index) == SetupDefaultLedsFrom(W, module_index, 0)

\* the allocated states of W that no LED of W points to
Unreachable(W) == W.live \ {W.leds[c].program_state : c \in Chan}

\* C39: no code outside ProgramManager drops a live state: load_led_config
\* (also through load_configuration at run time), LED::reset,
\* setupDefaultLeds and the copy assignment of a LED destroy the state of a
\* LED before they overwrite its program fields, so that no allocated
\* ProgramState is ever unreachable.
C39_NoStateDroppedOutsideManager ==
    /\ Unreachable(World) = {}
    /\ \A c \in Chan :
           leds[c].program_state # NULLPTR
               => /\ Unreachable(reset(Start, c)) = {}
                  /\ Unreachable(setupDefaultLeds(Start, c[1])) = {}
                  /\ \A other \in Chan \ {c} : Unreachable(copy_assign(Start, c, other)) = {}

====
